---- MODULE Spec2Model ----
(***************************************************************************)
(* ExploreGPT: the LLM orchestrator (models/llm_clients.py), the cost      *)
(* tracker (models/cost_tracker.py), the search intent detector            *)
(* (models/web_search.py) and the Flask handlers that drive them (app.py). *)
(*                                                                         *)
(* Text is a sequence of atoms; Width gives the number of characters of an *)
(* atom, so that len() is StrLen and + is \o.  Money is an integer number  *)
(* of 1e-8 dollars, so that the pricing table and round(x, 4) are exact.   *)
(***************************************************************************)
EXTENDS Integers, Sequences, FiniteSets, TLC

\* ------------------------------------------------------------------ bounds
MaxUpdates == 1
MaxContextLen == 2
MaxChunks == 2
MaxResults == 1
MaxCalls == 4
MaxItems == 2
MaxCount == 3
MaxTokens == 34
MaxDay == 3
MaxRecords == 3
Workers == 2

\* --------------------------------------------------------------- providers
Providers == {"openai", "anthropic", "google"}

\* the order of the literal list in _get_enabled_providers
ProviderOrder == <<"openai", "anthropic", "google">>

\* ------------------------------------------------------------------- text
\* characters of each atom of text
Width(a) ==
    CASE a = "hello" -> 5
      [] a = "what " -> 5
      [] a = "latest" -> 6
      [] a = "\n\nRelevant context:\n" -> 20
      [] a = "\n" -> 1
      [] a = "\n\n" -> 2
      [] a = "c1" -> 2
      [] a = "c2" -> 2
      [] a = "c3" -> 2
      [] a = "c4" -> 2
      [] OTHER -> 12

RECURSIVE StrLen(_)
StrLen(s) == IF s = <<>> THEN 0 ELSE Width(Head(s)) + StrLen(Tail(s))

\* "\n".join(items)
RECURSIVE Join(_)
Join(items) ==
    IF items = <<>> THEN <<>>
    ELSE IF Len(items) = 1 THEN <<items[1]>>
    ELSE <<items[1], "\n">> \o Join(Tail(items))

\* mutant: the context is not truncated
Take_all(s, n) == s

\* context[:n]
Take(s, n) == SubSeq(s, 1, IF n < Len(s) THEN n ELSE Len(s))

\* the user messages of the model (message.strip() is non-empty)
Messages == { <<"hello">>, <<"latest">>, <<"what ", "latest">> }

ContextItems == <<"c1", "c2", "c3", "c4">>

\* the context lists handed to the orchestrator
Contexts == { SubSeq(ContextItems, 1, n) : n \in 0..MaxContextLen }

\* ------------------------------------------------- search intent detection
Has(message, a) == \E i \in 1..Len(message) : message[i] = a

Before(message, a, b) ==
    \E i \in 1..Len(message) : \E j \in i..Len(message) :
        /\ message[i] = a
        /\ message[j] = b
        /\ (i = j => a = b)

needs_search(message) ==
    \/ Before(message, "what ", "latest")
    \/ /\ Has(message, "latest")
       /\ Has(message, "what ")

should_search(message) == needs_search(message)

\* ------------------------------------------------------------ cost tracker
\* the granularity of round(x, 4), in units of 1e-8 dollars
Round4Unit == 10000

\* PRICING[provider][model], per token, in units of 1e-8 dollars
PricedModels(provider) ==
    CASE provider = "openai" -> {"gpt-4", "gpt-3.5-turbo"}
      [] provider = "anthropic" -> {"claude-3-sonnet-20240229", "claude-3-haiku-20240307"}
      [] provider = "google" -> {"gemini-pro"}
      [] OTHER -> {}

InputRate(model) ==
    CASE model = "gpt-4" -> 3000
      [] model = "gpt-3.5-turbo" -> 150
      [] model = "claude-3-sonnet-20240229" -> 300
      [] model = "claude-3-haiku-20240307" -> 25
      [] model = "gemini-pro" -> 50
      [] OTHER -> 0

OutputRate(model) ==
    CASE model = "gpt-4" -> 6000
      [] model = "gpt-3.5-turbo" -> 200
      [] model = "claude-3-sonnet-20240229" -> 1500
      [] model = "claude-3-haiku-20240307" -> 125
      [] model = "gemini-pro" -> 150
      [] OTHER -> 0

\* mutant: the digits after the fourth decimal are kept, the others dropped
Round4_rest(x) == x % Round4Unit

\* round(x, 4): to the nearest multiple of 1e-4 dollars, ties to even
Round4(x) ==
    LET q == x \div Round4Unit
        r == x % Round4Unit
    IN  IF 2 * r < Round4Unit THEN q * Round4Unit
        ELSE IF 2 * r > Round4Unit THEN (q + 1) * Round4Unit
        ELSE IF q % 2 = 0 THEN q * Round4Unit
        ELSE (q + 1) * Round4Unit

DefaultEstimate == 1000000

DefaultOutputTokens == 100

estimate_cost(provider, model, input_tokens, output_tokens) ==
    IF model \notin PricedModels(provider) THEN DefaultEstimate
    ELSE Round4(input_tokens * InputRate(model) + output_tokens * OutputRate(model))

estimate_message_tokens(text) ==
    LET t == StrLen(text) \div 4 IN IF t > 1 THEN t ELSE 1

\* ---------------------------------------------------------------- settings
\* models of the default settings and of the settings form
ModelMaps ==
    { [openai |-> "gpt-3.5-turbo", anthropic |-> "claude-3-sonnet-20240229",
       google |-> "gemini-1.5-flash"],
      [openai |-> "gpt-4", anthropic |-> "claude-3-sonnet-20240229",
       google |-> "gemini-pro"] }

\* provider_settings[p]['enabled']: the default settings, and all enabled
EnabledMaps ==
    { [openai |-> TRUE, anthropic |-> FALSE, google |-> TRUE],
      [openai |-> TRUE, anthropic |-> TRUE, google |-> TRUE] }

\* daily budgets: 0.03 dollars (one fifth of it is the estimate of the
\* shortest gpt-4 request, so that the gate depends on the model and on the
\* message) and the default, 5.00 dollars
DailyBudgets == {3000000, 500000000}

ContextCounts == {1, 5}

ResponseSettings == [max_tokens |-> 1000, temperature |-> "0.7", timeout |-> 30]

\* provider_settings[p]['priority'] of the default settings
DefaultPriority == [openai |-> 1, anthropic |-> 2, google |-> 2]

\* the settings objects of version v (version is the identity of the object)
SettingsSpace(v) ==
    [ version : {v},
      selected_provider : Providers,
      context_count : ContextCounts,
      track_costs : BOOLEAN,
      daily_budget : DailyBudgets,
      models : ModelMaps,
      enabled : EnabledMaps,
      smart_routing : {FALSE},
      priority : {DefaultPriority},
      parallel_requests : {TRUE},
      response_settings : {ResponseSettings} ]

\* cost_management['smart_routing']: only _chat_sequential reads it; the
\* single-provider requests run with the default
SmartRouting == BOOLEAN

\* ------------------------------------------------------------------- state
VARIABLES
    settings,   \* orchestrator.settings
    clients,    \* keys of orchestrator.clients
    updates,    \* settings updates so far
    kind,       \* "chat": chat_single, "stream": /stream-chat
    pc,         \* position of the request
    message,    \* user message
    context,    \* context list handed to the orchestrator
    loc,        \* locals of the orchestrator call and of the adapter
    events,     \* events delivered to the client, in order
    produced,   \* events yielded by chat_single_stream, in order
    response,   \* result of chat_single / _call_provider
    calls,      \* provider SDK invocations, in order
    searches,   \* calls of web_search_manager.search
    costs,      \* cost_tracker.costs, per provider
    reads,      \* the settings objects the request has read
    stored,     \* turns persisted by store_conversation
    providers,  \* multi-provider call: the providers argument
    submitted,  \* multi-provider call: providers taken from the list so far
    futures,    \* multi-provider call: state of each provider's call
    responses,  \* multi-provider call: the responses dict
    ppc,        \* multi-provider call: position of the calling thread
    called,     \* providers handed to _call_provider by a multi-provider call
    init_fails, \* providers whose client constructor raises
    tracker,    \* cost_tracker.costs
    cost_file,  \* content of cost_tracking.json
    clock,      \* the day datetime.now() is in
    ledger,     \* the record_cost calls that returned, in order
    threads,    \* record_cost: position and locals of each caller
    est,        \* estimate_cost: arguments and values returned
    ws_providers, \* web_search_manager.providers, by class name
    ws_count,   \* WebSearchManager.search: the count argument
    ws_http,    \* what the HTTP request of each search provider gets
    ws_i,       \* WebSearchManager.search: providers taken from the list
    ws_queried, \* search providers called, in order
    ws_results, \* WebSearchManager.search: the list returned
    ws_pc,      \* WebSearchManager.search: position
    heap,       \* the dict objects of the settings manager and its callers
    default_settings,  \* settings_manager.default_settings (an object)
    settings_file,     \* content of user_settings.json
    user_settings,     \* the settings a caller hands to save_settings
    current_settings,  \* the object load_settings returned last
    mgr         \* settings manager: what was called last, and the outcome

chatVars == <<settings, clients, updates, kind, pc, message, context, loc,
              events, produced, response, calls, searches, costs, reads,
              stored>>

parVars == <<providers, submitted, futures, responses, ppc, called>>

trackerVars == <<tracker, cost_file, clock, ledger, threads>>

estVars == <<est>>

wsVars == <<ws_providers, ws_count, ws_http, ws_i, ws_queried, ws_results, ws_pc>>

mgrVars == <<heap, default_settings, settings_file, user_settings,
             current_settings, mgr>>

libVars == <<trackerVars, estVars, wsVars, mgrVars>>

vars == <<chatVars, parVars, init_fails, libVars>>

\* no multi-provider call is running
ParIdle ==
    /\ providers = <<>>
    /\ submitted = 0
    /\ futures = [p \in Providers |-> "none"]
    /\ responses = <<>>
    /\ ppc = "idle"
    /\ called = <<>>

\* no call of the cost tracker is running
TrackerIdle ==
    /\ tracker = "none"
    /\ cost_file = "none"
    /\ clock = 0
    /\ ledger = <<>>
    /\ threads = <<>>

EstIdle == est = "none"

\* no web search is running
WsIdle ==
    /\ ws_providers = <<>>
    /\ ws_count = 0
    /\ ws_http = <<>>
    /\ ws_i = 0
    /\ ws_queried = <<>>
    /\ ws_results = <<>>
    /\ ws_pc = "idle"

\* the settings manager is not called
MgrIdle ==
    /\ heap = <<>>
    /\ default_settings = 0
    /\ settings_file = "none"
    /\ user_settings = "none"
    /\ current_settings = 0
    /\ mgr = "none"

LibIdle == TrackerIdle /\ EstIdle /\ WsIdle /\ MgrIdle

NoResponse ==
    [response |-> <<>>, success |-> FALSE, latency |-> -1, provider |-> "none",
     model |-> "none", tokens |-> FALSE, estimated_cost |-> -1]

NoLoc ==
    [selected_provider |-> "none", search_results_text |-> <<>>,
     full_message |-> <<>>, track_costs |-> FALSE, estimated_cost |-> -1,
     daily_budget |-> -1, model |-> "none", context_count |-> -1,
     params |-> "none", adapter |-> "none", adapter_model |-> "none",
     sdk |-> "none", full_response |-> <<>>, chunks |-> 0, results |-> -1,
     outcomes |-> <<>>, record |-> "none"]

\* measured wall-clock latencies, in ms
Latencies == {0, 25}

Init ==
    /\ settings \in SettingsSpace(0)
    /\ clients \in SUBSET Providers
    /\ updates = 0
    /\ kind \in {"chat", "stream"}
    /\ pc = IF kind = "chat" THEN "cs_provider" ELSE "h_typing"
    /\ message \in Messages
    /\ context \in Contexts
    /\ loc = NoLoc
    /\ events = <<>>
    /\ produced = <<>>
    /\ response = NoResponse
    /\ calls = <<>>
    /\ searches = 0
    /\ costs = [p \in Providers |-> 0]
    /\ reads = {}
    /\ stored = <<>>
    /\ init_fails = Providers \ clients
    /\ LibIdle
    /\ ParIdle

\* a read of self.settings by the running request
Read == reads' = reads \cup {settings}

\* ---------------------------------------------------------- update_settings
\* the request is running: it has taken its first step and not its last
InFlight == pc \notin {"cs_provider", "h_typing", "done"}

\* POST /settings -> orchestrator.update_settings(current_settings), on
\* another thread of the server.  An update before the request starts is an
\* initial state with those settings, and one after it ended changes nothing
\* the request did, so only the updates that overlap the request are taken.
\* Spec is the request with no overlapping update, SpecRace the request with
\* overlapping updates.
UpdateSettings ==
    /\ updates < MaxUpdates
    /\ InFlight
    /\ \E s \in SettingsSpace(updates + 1) : settings' = s
    /\ clients' = clients \cup {"google"}
    /\ updates' = updates + 1
    /\ UNCHANGED <<parVars, init_fails, libVars>>
    /\ UNCHANGED <<kind, pc, message, context, loc, events, produced, response, calls,
                   searches, costs, reads, stored>>

\* ------------------------------------------------------- shared operators
\* context_text of chat_single / chat_single_stream ("if context:")
context_text(ctx, context_count) ==
    IF ctx = <<>> THEN <<>>
    ELSE <<"\n\nRelevant context:\n">> \o Join(Take(ctx, context_count))

\* mutant: the context block before the search text
assemble_context_first(msg, search_text, ctx_text) == msg \o ctx_text \o search_text

\* message + search_results_text + context_text
assemble(msg, search_text, ctx_text) == msg \o search_text \o ctx_text

\* mutant: the whole daily budget as the limit of one request
budget_exceeded_whole(estimated_cost, daily_budget) == estimated_cost > daily_budget

\* mutant: a request at exactly 20% of the daily budget is rejected
budget_exceeded_geq(estimated_cost, daily_budget) == estimated_cost * 5 >= daily_budget

\* estimated_cost > daily_budget / 5
budget_exceeded(estimated_cost, daily_budget) == estimated_cost * 5 > daily_budget

\* mutant: no availability check
unavailable_never(provider, cl) == FALSE

\* selected_provider not in self.clients
unavailable(provider, cl) == provider \notin cl

Unavailable(provider) ==
    [NoResponse EXCEPT !.response = <<"Provider ", provider, " is not available">>,
                       !.latency = 0, !.provider = provider]

Skipped(provider, cost) ==
    [NoResponse EXCEPT !.response = <<"Request skipped: estimated cost exceeds budget limits">>,
                       !.latency = 0, !.provider = provider,
                       !.estimated_cost = -1]

\* ------------------------------------------------------------ chat_single
\* l.48: selected_provider = self.settings...['selected_provider']
cs_provider ==
    /\ pc = "cs_provider"
    /\ Read
    /\ loc' = [loc EXCEPT !.selected_provider = settings.selected_provider]
    /\ pc' = "cs_available"
    /\ UNCHANGED <<parVars, init_fails, libVars>>
    /\ UNCHANGED <<settings, clients, updates, kind, message, context, events, produced,
                   response, calls, searches, costs, stored>>

\* mutant: an unavailable provider falls back to an available one
cs_available_fallback ==
    /\ pc = "cs_available"
    /\ IF unavailable(loc.selected_provider, clients)
       THEN IF clients = {}
            THEN /\ response' = Unavailable(loc.selected_provider)
                 /\ loc' = loc
                 /\ pc' = "done"
            ELSE /\ response' = response
                 /\ \E p \in clients : loc' = [loc EXCEPT !.selected_provider = p]
                 /\ pc' = "cs_context"
       ELSE /\ response' = response
            /\ loc' = loc
            /\ pc' = "cs_context"
    /\ UNCHANGED <<parVars, init_fails, libVars>>
    /\ UNCHANGED <<settings, clients, updates, kind, message, context,
                   events, produced, calls, searches, costs, reads, stored>>

\* l.51-57: provider not available: return
cs_available ==
    /\ pc = "cs_available"
    /\ IF unavailable(loc.selected_provider, clients)
       THEN /\ response' = Unavailable(loc.selected_provider)
            /\ pc' = "done"
       ELSE /\ response' = response
            /\ pc' = "cs_context"
    /\ UNCHANGED <<parVars, init_fails, libVars>>
    /\ UNCHANGED <<settings, clients, updates, kind, message, context, loc,
                   events, produced, calls, searches, costs, reads, stored>>

\* l.59-66: context_text, full_message
cs_context ==
    /\ pc = "cs_context"
    /\ IF context # <<>>
       THEN /\ Read
            /\ loc' = [loc EXCEPT
                         !.context_count = settings.context_count,
                         !.full_message =
                           assemble(message, <<>>,
                                    context_text(context, settings.context_count))]
       ELSE /\ reads' = reads
            /\ loc' = [loc EXCEPT !.full_message = assemble(message, <<>>, <<>>)]
    /\ pc' = "cs_budget"
    /\ UNCHANGED <<parVars, init_fails, libVars>>
    /\ UNCHANGED <<settings, clients, updates, kind, message, context, events, produced,
                   response, calls, searches, costs, stored>>

\* l.69: if self._should_check_budget()
cs_budget ==
    /\ pc = "cs_budget"
    /\ Read
    /\ loc' = [loc EXCEPT !.track_costs = settings.track_costs]
    /\ pc' = IF settings.track_costs THEN "cs_model" ELSE "cs_call"
    /\ UNCHANGED <<parVars, init_fails, libVars>>
    /\ UNCHANGED <<settings, clients, updates, kind, message, context, events, produced,
                   response, calls, searches, costs, stored>>

\* l.70-72: estimated tokens, model, estimated cost
cs_model ==
    /\ pc = "cs_model"
    /\ Read
    /\ loc' = [loc EXCEPT
                 !.model = settings.models[loc.selected_provider],
                 !.estimated_cost =
                     estimate_cost(loc.selected_provider,
                                   settings.models[loc.selected_provider],
                                   estimate_message_tokens(loc.full_message),
                                   DefaultOutputTokens)]
    /\ pc' = "cs_daily"
    /\ UNCHANGED <<parVars, init_fails, libVars>>
    /\ UNCHANGED <<settings, clients, updates, kind, message, context, events, produced,
                   response, calls, searches, costs, stored>>

\* mutant: the gate adds what the provider has cost so far to the estimate
cs_daily_spent ==
    /\ pc = "cs_daily"
    /\ Read
    /\ loc' = [loc EXCEPT !.daily_budget = settings.daily_budget]
    /\ IF budget_exceeded(loc.estimated_cost + costs[loc.selected_provider],
                          settings.daily_budget)
       THEN /\ response' = Skipped(loc.selected_provider, loc.estimated_cost)
            /\ pc' = "done"
       ELSE /\ response' = response
            /\ pc' = "cs_call"
    /\ UNCHANGED <<parVars, init_fails, libVars>>
    /\ UNCHANGED <<settings, clients, updates, kind, message, context, events, produced,
                   calls, searches, costs, stored>>

\* l.74-81: daily budget, the gate
cs_daily ==
    /\ pc = "cs_daily"
    /\ Read
    /\ loc' = [loc EXCEPT !.daily_budget = settings.daily_budget]
    /\ IF budget_exceeded(loc.estimated_cost, settings.daily_budget)
       THEN /\ response' = Skipped(loc.selected_provider, loc.estimated_cost)
            /\ pc' = "done"
       ELSE /\ response' = response
            /\ pc' = "cs_call"
    /\ UNCHANGED <<parVars, init_fails, libVars>>
    /\ UNCHANGED <<settings, clients, updates, kind, message, context, events, produced,
                   calls, searches, costs, stored>>

\* ---------------------------------------------------------- _call_provider
\* where _call_provider returns to
AfterCall == IF kind = "chat" THEN "cs_return" ELSE "sf_content"

\* the except branch of an adapter
Failed(lat) ==
    [NoResponse EXCEPT !.response = <<"Error: ", "provider failure">>,
                       !.latency = lat]

\* token usage reported by OpenAI and Anthropic
Usage == [input |-> 12, output |-> 40]

\* the adapters that pass timeout= to the SDK
passes_timeout(provider) == provider = "openai"

\* the adapters that read response_settings
reads_response_settings(provider) == provider \in {"openai", "anthropic"}

\* mutant: token counts are made up for a provider that reports none
reports_usage_all(provider) == TRUE

\* the adapters whose SDK reports token usage
reports_usage(provider) == provider \in {"openai", "anthropic"}

\* l.84 / l.149, l.274-295: dispatch on the provider
cs_call ==
    /\ pc = "cs_call"
    /\ IF loc.selected_provider \notin clients
       THEN /\ response' = [NoResponse EXCEPT
                              !.response = <<loc.selected_provider, " client not available">>,
                              !.latency = 0]
            /\ loc' = loc
            /\ pc' = AfterCall
       ELSE /\ response' = response
            /\ loc' = [loc EXCEPT !.adapter = loc.selected_provider]
            /\ pc' = "ad_model"
    /\ UNCHANGED <<parVars, init_fails, libVars>>
    /\ UNCHANGED <<settings, clients, updates, kind, message, context, events, produced,
                   calls, searches, costs, reads, stored>>

\* _call_openai l.300, _call_anthropic l.347, _call_google l.392: model
ad_model ==
    /\ pc = "ad_model"
    /\ Read
    /\ loc' = [loc EXCEPT !.adapter_model = settings.models[loc.adapter]]
    /\ pc' = IF reads_response_settings(loc.adapter) THEN "ad_params" ELSE "ad_sdk"
    /\ UNCHANGED <<parVars, init_fails, libVars>>
    /\ UNCHANGED <<settings, clients, updates, kind, message, context, events, produced,
                   response, calls, searches, costs, stored>>

\* l.301-303, l.348-349: max_tokens, temperature, timeout
ad_params ==
    /\ pc = "ad_params"
    /\ Read
    /\ loc' = [loc EXCEPT !.params = IF passes_timeout(loc.adapter)
                                     THEN "max_tokens,temperature,timeout"
                                     ELSE "max_tokens,temperature"]
    /\ pc' = "ad_sdk"
    /\ UNCHANGED <<parVars, init_fails, libVars>>
    /\ UNCHANGED <<settings, clients, updates, kind, message, context, events, produced,
                   response, calls, searches, costs, stored>>

\* mutant: no except branch: the SDK's exception leaves the adapter
ad_sdk_propagate ==
    /\ pc = "ad_sdk"
    /\ calls' = Append(calls, [provider |-> loc.adapter, model |-> loc.adapter_model,
                               params |-> loc.params, stream |-> FALSE,
                               message |-> loc.full_message])
    /\ \/ /\ loc' = [loc EXCEPT !.sdk = "ok"]
          /\ pc' = "ad_cost"
       \/ /\ loc' = [loc EXCEPT !.sdk = "raised"]
          /\ pc' = "raised"
    /\ UNCHANGED <<parVars, init_fails, libVars>>
    /\ UNCHANGED <<settings, clients, updates, kind, message, context, events,
                   produced, response, searches, costs, reads, stored>>

\* l.305-311, l.351-356, l.395: the SDK call returns or raises
ad_sdk ==
    /\ pc = "ad_sdk"
    /\ calls' = Append(calls, [provider |-> loc.adapter, model |-> loc.adapter_model,
                               params |-> loc.params, stream |-> FALSE,
                               message |-> loc.full_message])
    /\ \/ /\ loc' = [loc EXCEPT !.sdk = "ok"]
          /\ response' = response
          /\ pc' = "ad_cost"
       \/ /\ loc' = [loc EXCEPT !.sdk = "raised"]
          /\ \E lat \in Latencies : response' = Failed(lat)
          /\ pc' = AfterCall
    /\ UNCHANGED <<parVars, init_fails, libVars>>
    /\ UNCHANGED <<settings, clients, updates, kind, message, context, events, produced,
                   searches, costs, reads, stored>>

\* the cost an adapter records for a successful call
adapter_cost(provider, model, msg) ==
    IF reports_usage(provider)
    THEN estimate_cost(provider, model, Usage.input, Usage.output)
    ELSE estimate_cost(provider, model, estimate_message_tokens(msg), DefaultOutputTokens)

\* cost_tracker.record_cost, summed per provider
record_cost(c, provider, actual_cost) == [c EXCEPT ![provider] = @ + actual_cost]

\* the result an adapter builds from the SDK's response
adapter_result(provider, model, lat) ==
    [NoResponse EXCEPT !.response = <<"answer">>,
                       !.success = TRUE,
                       !.latency = lat,
                       !.model = model,
                       !.tokens = reports_usage(provider)]

\* l.313-342, l.358-387, l.397-418: the result is built and, with cost
\* tracking, the cost is recorded; record_cost runs inside the adapter's
\* try, so when it raises (cost_tracker.costs loaded from a file without
\* the 'daily' key, cost_tracker.py l.70) the except branch returns the
\* error result; a failure to save is swallowed by _save_costs (l.43-44)
ad_cost ==
    /\ pc = "ad_cost"
    /\ Read
    /\ \E lat \in Latencies :
         LET cost == adapter_cost(loc.adapter, loc.adapter_model, loc.full_message)
             result == adapter_result(loc.adapter, loc.adapter_model, lat)
         IN  IF settings.track_costs
             THEN \/ /\ costs' = record_cost(costs, loc.adapter, cost)
                     /\ response' = [result EXCEPT !.estimated_cost = cost]
                     /\ loc' = [loc EXCEPT !.record = "ok"]
                  \/ /\ costs' = costs
                     /\ response' = Failed(lat)
                     /\ loc' = [loc EXCEPT !.record = "raised"]
             ELSE /\ costs' = costs
                  /\ response' = result
                  /\ loc' = loc
    /\ pc' = AfterCall
    /\ UNCHANGED <<parVars, init_fails, libVars>>
    /\ UNCHANGED <<settings, clients, updates, kind, message, context,
                   events, produced, calls, searches, stored>>

\* l.85-87: tag the result with the provider and return it
cs_return ==
    /\ pc = "cs_return"
    /\ response' = [response EXCEPT !.provider = loc.selected_provider]
    /\ pc' = "done"
    /\ UNCHANGED <<parVars, init_fails, libVars>>
    /\ UNCHANGED <<settings, clients, updates, kind, message, context, loc,
                   events, produced, calls, searches, costs, reads, stored>>

\* ------------------------------------------------------------------ events
NoEvent ==
    [type |-> "none", provider |-> "none", model |-> "none", text |-> <<>>,
     full_response |-> <<>>, latency |-> -1, results |-> -1]

Ev(type) == [NoEvent EXCEPT !.type = type]

EvP(type, provider) == [NoEvent EXCEPT !.type = type, !.provider = provider]

\* yield: the /stream-chat handler delivers the event at once (app.py l.134-135)
Yield(e) == events' = Append(events, e) /\ produced' = Append(produced, e)

\* the handler delivers an event of its own (app.py l.125, l.156, l.159)
Deliver(e) == events' = Append(events, e) /\ produced' = produced

\* nothing is yielded
NoYield == events' = events /\ produced' = produced

\* full_response_text of the handler: the texts of the content events
RECURSIVE ContentText(_)
ContentText(evs) ==
    IF evs = <<>> THEN <<>>
    ELSE (IF Head(evs).type = "content" THEN Head(evs).text ELSE <<>>)
         \o ContentText(Tail(evs))

\* ------------------------------------------------- /stream-chat: generate()
\* app.py l.125: the typing indicator
h_typing ==
    /\ pc = "h_typing"
    /\ Deliver(Ev("typing"))
    /\ pc' = "h_context"
    /\ UNCHANGED <<parVars, init_fails, libVars>>
    /\ UNCHANGED <<settings, clients, updates, kind, message, context, loc,
                   response, calls, searches, costs, reads, stored>>

\* app.py l.128: get_relevant_context returns, or raises (l.158-159)
h_context ==
    /\ pc = "h_context"
    /\ \/ /\ pc' = "st_provider"
          /\ NoYield
       \/ /\ Deliver([Ev("error") EXCEPT !.text = <<"handler">>])
          /\ pc' = "done"
    /\ UNCHANGED <<parVars, init_fails, libVars>>
    /\ UNCHANGED <<settings, clients, updates, kind, message, context, loc,
                   response, calls, searches, costs, reads, stored>>

\* ------------------------------------------------------ chat_single_stream
\* l.92
st_provider ==
    /\ pc = "st_provider"
    /\ Read
    /\ loc' = [loc EXCEPT !.selected_provider = settings.selected_provider]
    /\ pc' = "st_available"
    /\ UNCHANGED <<parVars, init_fails, libVars>>
    /\ UNCHANGED <<settings, clients, updates, kind, message, context, events, produced,
                   response, calls, searches, costs, stored>>

\* l.95-101
st_available ==
    /\ pc = "st_available"
    /\ IF unavailable(loc.selected_provider, clients)
       THEN /\ Yield([EvP("error", loc.selected_provider) EXCEPT
                        !.text = <<"Provider ", loc.selected_provider, " is not available">>])
            /\ pc' = "h_store"
       ELSE /\ NoYield
            /\ pc' = "st_search"
    /\ UNCHANGED <<parVars, init_fails, libVars>>
    /\ UNCHANGED <<settings, clients, updates, kind, message, context, loc,
                   response, calls, searches, costs, reads, stored>>

\* mutant: every message is searched for
st_search_always ==
    /\ pc = "st_search"
    /\ Yield(Ev("searching"))
    /\ pc' = "st_dosearch"
    /\ UNCHANGED <<parVars, init_fails, libVars>>
    /\ UNCHANGED <<settings, clients, updates, kind, message, context, loc,
                   response, calls, searches, costs, reads, stored>>

\* l.104-106
st_search ==
    /\ pc = "st_search"
    /\ IF should_search(message)
       THEN /\ Yield(Ev("searching"))
            /\ pc' = "st_dosearch"
       ELSE /\ NoYield
            /\ pc' = "st_context"
    /\ UNCHANGED <<parVars, init_fails, libVars>>
    /\ UNCHANGED <<settings, clients, updates, kind, message, context, loc,
                   response, calls, searches, costs, reads, stored>>

\* "\n\n" + format_for_llm(message, search_results), n results
search_text(n) ==
    IF n = 0 THEN <<>>
    ELSE <<"\n\n", "Web search results for">> \o [i \in 1..n |-> "result"]
         \o <<"[Found results]">>

\* WebSearchManager.providers: DuckDuckGo, preceded by Brave when an API key
\* is configured
SearchProviderLists ==
    { <<"DuckDuckGoProvider">>, <<"BraveSearchProvider", "DuckDuckGoProvider">> }

\* what provider.search does: it raises, or returns n results
ProviderOutcomes ==
    {[raised |-> TRUE, n |-> 0]} \cup {[raised |-> FALSE, n |-> k] : k \in 0..MaxResults}

\* debug_search / debug_error: the call is logged and returns
debug_search(outcome) == TRUE

\* WebSearchManager.search: the results of the first provider that returns
\* some; a provider that raises or returns none is logged and skipped; the
\* empty list when no provider is left
RECURSIVE search(_)
search(outcomes) ==
    IF outcomes = <<>> THEN 0
    ELSE IF ~Head(outcomes).raised /\ Head(outcomes).n > 0 /\ debug_search(Head(outcomes))
         THEN Head(outcomes).n
         ELSE search(Tail(outcomes))

\* mutant: the no-results variant ends the stream
st_dosearch_abort ==
    /\ pc = "st_dosearch"
    /\ searches' = searches + 1
    /\ \E ps \in SearchProviderLists : \E outs \in [1..Len(ps) -> ProviderOutcomes] :
         LET n == search(outs)
         IN  /\ loc' = [loc EXCEPT !.results = n, !.outcomes = outs,
                                   !.search_results_text = search_text(n)]
             /\ Yield([Ev("search_complete") EXCEPT !.results = n])
             /\ pc' = IF n = 0 THEN "h_store" ELSE "st_context"
    /\ UNCHANGED <<parVars, init_fails, libVars>>
    /\ UNCHANGED <<settings, clients, updates, kind, message, context,
                   response, calls, costs, reads, stored>>

\* l.108-117: search, then search_complete with the results or the
\* no-results variant
st_dosearch ==
    /\ pc = "st_dosearch"
    /\ searches' = searches + 1
    /\ \E ps \in SearchProviderLists : \E outs \in [1..Len(ps) -> ProviderOutcomes] :
         LET n == search(outs)
         IN  /\ loc' = [loc EXCEPT !.results = n, !.outcomes = outs,
                                   !.search_results_text = search_text(n)]
             /\ Yield([Ev("search_complete") EXCEPT !.results = n])
    /\ pc' = "st_context"
    /\ UNCHANGED <<parVars, init_fails, libVars>>
    /\ UNCHANGED <<settings, clients, updates, kind, message, context,
                   response, calls, costs, reads, stored>>

\* l.119-126 (the locals of search() are gone)
st_context ==
    /\ pc = "st_context"
    /\ IF context # <<>>
       THEN /\ Read
            /\ loc' = [loc EXCEPT
                         !.outcomes = <<>>,
                         !.context_count = settings.context_count,
                         !.full_message =
                           assemble(message, loc.search_results_text,
                                    context_text(context, settings.context_count))]
       ELSE /\ reads' = reads
            /\ loc' = [loc EXCEPT !.outcomes = <<>>,
                                  !.full_message =
                                    assemble(message, loc.search_results_text, <<>>)]
    /\ pc' = "st_budget"
    /\ UNCHANGED <<parVars, init_fails, libVars>>
    /\ UNCHANGED <<settings, clients, updates, kind, message, context, events, produced,
                   response, calls, searches, costs, stored>>

\* l.129
st_budget ==
    /\ pc = "st_budget"
    /\ Read
    /\ loc' = [loc EXCEPT !.track_costs = settings.track_costs]
    /\ pc' = IF settings.track_costs THEN "st_model" ELSE "st_dispatch"
    /\ UNCHANGED <<parVars, init_fails, libVars>>
    /\ UNCHANGED <<settings, clients, updates, kind, message, context, events, produced,
                   response, calls, searches, costs, stored>>

\* l.130-132
st_model ==
    /\ pc = "st_model"
    /\ Read
    /\ loc' = [loc EXCEPT
                 !.model = settings.models[loc.selected_provider],
                 !.estimated_cost =
                     estimate_cost(loc.selected_provider,
                                   settings.models[loc.selected_provider],
                                   estimate_message_tokens(loc.full_message),
                                   DefaultOutputTokens)]
    /\ pc' = "st_daily"
    /\ UNCHANGED <<parVars, init_fails, libVars>>
    /\ UNCHANGED <<settings, clients, updates, kind, message, context, events, produced,
                   response, calls, searches, costs, stored>>

\* mutant: the rejection is reported but the stream goes on (no return)
st_daily_noreturn ==
    /\ pc = "st_daily"
    /\ Read
    /\ loc' = [loc EXCEPT !.daily_budget = settings.daily_budget]
    /\ IF budget_exceeded(loc.estimated_cost, settings.daily_budget)
       THEN Yield([EvP("error", loc.selected_provider) EXCEPT
                     !.text = <<"Request skipped: estimated cost exceeds budget limits">>])
       ELSE NoYield
    /\ pc' = "st_dispatch"
    /\ UNCHANGED <<parVars, init_fails, libVars>>
    /\ UNCHANGED <<settings, clients, updates, kind, message, context,
                   response, calls, searches, costs, stored>>

\* l.134-141
st_daily ==
    /\ pc = "st_daily"
    /\ Read
    /\ loc' = [loc EXCEPT !.daily_budget = settings.daily_budget]
    /\ IF budget_exceeded(loc.estimated_cost, settings.daily_budget)
       THEN /\ Yield([EvP("error", loc.selected_provider) EXCEPT
                        !.text = <<"Request skipped: estimated cost exceeds budget limits">>])
            /\ pc' = "h_store"
       ELSE /\ NoYield
            /\ pc' = "st_dispatch"
    /\ UNCHANGED <<parVars, init_fails, libVars>>
    /\ UNCHANGED <<settings, clients, updates, kind, message, context,
                   response, calls, searches, costs, stored>>

\* the providers streamed incrementally (l.144)
streams(provider) == provider = "openai"

\* mutant: the fallback does not announce the provider with a start event
st_dispatch_nostart ==
    /\ pc = "st_dispatch"
    /\ pc' = IF streams(loc.selected_provider) THEN "so_start" ELSE "cs_call"
    /\ UNCHANGED <<parVars, init_fails, libVars>>
    /\ UNCHANGED <<settings, clients, updates, kind, message, context, loc,
                   events, produced, response, calls, searches, costs, reads, stored>>

\* l.144-148: openai streams; the others start the non-streaming fallback
st_dispatch ==
    /\ pc = "st_dispatch"
    /\ IF streams(loc.selected_provider)
       THEN /\ NoYield
            /\ pc' = "so_start"
       ELSE /\ Yield(EvP("start", loc.selected_provider))
            /\ pc' = "cs_call"
    /\ UNCHANGED <<parVars, init_fails, libVars>>
    /\ UNCHANGED <<settings, clients, updates, kind, message, context, loc,
                   response, calls, searches, costs, reads, stored>>

\* l.149-154: the blocking call has returned; its text is one content event
sf_content ==
    /\ pc = "sf_content"
    /\ Yield([EvP("content", loc.selected_provider) EXCEPT !.text = response.response])
    /\ pc' = "sf_end"
    /\ UNCHANGED <<parVars, init_fails, libVars>>
    /\ UNCHANGED <<settings, clients, updates, kind, message, context, loc,
                   response, calls, searches, costs, reads, stored>>

\* l.155
sf_end ==
    /\ pc = "sf_end"
    /\ Yield(EvP("end", loc.selected_provider))
    /\ pc' = "h_store"
    /\ UNCHANGED <<parVars, init_fails, libVars>>
    /\ UNCHANGED <<settings, clients, updates, kind, message, context, loc,
                   response, calls, searches, costs, reads, stored>>

\* ----------------------------------------------------------- _stream_openai
\* the except branch, l.196-202
StreamError(lat) ==
    [EvP("error", "openai") EXCEPT !.text = <<"Error: ", "provider failure">>,
                                   !.latency = lat]

\* l.159-163: model, start event
so_start ==
    /\ pc = "so_start"
    /\ Read
    /\ loc' = [loc EXCEPT !.adapter_model = settings.models["openai"]]
    /\ Yield([EvP("start", "openai") EXCEPT !.model = settings.models["openai"]])
    /\ pc' = "so_create"
    /\ UNCHANGED <<parVars, init_fails, libVars>>
    /\ UNCHANGED <<settings, clients, updates, kind, message, context,
                   response, calls, searches, costs, stored>>

\* l.166-173: the streaming request is created, or raises
so_create ==
    /\ pc = "so_create"
    /\ Read
    /\ calls' = Append(calls, [provider |-> "openai", model |-> loc.adapter_model,
                               params |-> "max_tokens,temperature,timeout",
                               stream |-> TRUE, message |-> loc.full_message])
    /\ \/ /\ loc' = [loc EXCEPT !.sdk = "ok"]
          /\ NoYield
          /\ pc' = "so_chunk"
       \/ /\ loc' = [loc EXCEPT !.sdk = "raised"]
          /\ \E lat \in Latencies : Yield(StreamError(lat))
          /\ pc' = "h_store"
    /\ UNCHANGED <<parVars, init_fails, libVars>>
    /\ UNCHANGED <<settings, clients, updates, kind, message, context,
                   response, searches, costs, stored>>

\* the text of the k-th chunk
ChunkText(k) == <<"chunk">>

\* mutant: a stream that raises is closed with a partial end event
so_chunk_partial_end ==
    /\ pc = "so_chunk"
    /\ \/ /\ loc.chunks < MaxChunks
          /\ loc' = [loc EXCEPT !.chunks = @ + 1,
                                !.full_response = @ \o ChunkText(loc.chunks + 1)]
          /\ Yield([EvP("content", "openai") EXCEPT !.text = ChunkText(loc.chunks + 1)])
          /\ pc' = "so_chunk"
       \/ /\ loc' = loc
          /\ \E lat \in Latencies :
               Yield([EvP("end", "openai") EXCEPT !.model = loc.adapter_model,
                                                  !.latency = lat,
                                                  !.full_response = loc.full_response])
          /\ pc' = "h_store"
       \/ /\ loc' = [loc EXCEPT !.sdk = "raised"]
          /\ \E lat \in Latencies :
               Yield([EvP("end", "openai") EXCEPT !.model = loc.adapter_model,
                                                  !.latency = lat,
                                                  !.full_response = loc.full_response])
          /\ pc' = "h_store"
    /\ UNCHANGED <<parVars, init_fails, libVars>>
    /\ UNCHANGED <<settings, clients, updates, kind, message, context,
                   response, calls, searches, costs, reads, stored>>

\* l.175-202: the next chunk arrives, the stream ends, or the stream raises
\* (a chunk with an empty delta is skipped and changes nothing)
so_chunk ==
    /\ pc = "so_chunk"
    /\ \/ /\ loc.chunks < MaxChunks
          /\ loc' = [loc EXCEPT !.chunks = @ + 1,
                                !.full_response = @ \o ChunkText(loc.chunks + 1)]
          /\ Yield([EvP("content", "openai") EXCEPT !.text = ChunkText(loc.chunks + 1)])
          /\ pc' = "so_chunk"
       \/ /\ loc' = loc
          /\ \E lat \in Latencies :
               Yield([EvP("end", "openai") EXCEPT !.model = loc.adapter_model,
                                                  !.latency = lat,
                                                  !.full_response = loc.full_response])
          /\ pc' = "h_store"
       \/ /\ loc' = [loc EXCEPT !.sdk = "raised"]
          /\ \E lat \in Latencies : Yield(StreamError(lat))
          /\ pc' = "h_store"
    /\ UNCHANGED <<parVars, init_fails, libVars>>
    /\ UNCHANGED <<settings, clients, updates, kind, message, context,
                   response, calls, searches, costs, reads, stored>>

\* ------------------------------------------- /stream-chat: after the stream
\* the last end event delivered, if any (response_metadata)
RECURSIVE LastEnd(_)
LastEnd(evs) ==
    IF evs = <<>> THEN NoEvent
    ELSE IF evs[Len(evs)].type = "end" THEN evs[Len(evs)]
    ELSE LastEnd(SubSeq(evs, 1, Len(evs) - 1))

\* mutant: the stored text is the full_response of the end event
complete_response_meta(evs) ==
    LET meta == LastEnd(evs)
    IN  [response |-> meta.full_response,
         success |-> TRUE,
         provider |-> IF meta.provider = "none" THEN "unknown" ELSE meta.provider,
         model |-> IF meta.model = "none" THEN "" ELSE meta.model,
         latency |-> IF meta.latency = -1 THEN 0 ELSE meta.latency]

\* app.py l.144-150
complete_response(evs) ==
    LET meta == LastEnd(evs)
    IN  [response |-> ContentText(evs),
         success |-> TRUE,
         provider |-> IF meta.provider = "none" THEN "unknown" ELSE meta.provider,
         model |-> IF meta.model = "none" THEN "" ELSE meta.model,
         latency |-> IF meta.latency = -1 THEN 0 ELSE meta.latency]

\* mutant: a failure of store_conversation is swallowed
h_store_swallow ==
    /\ pc = "h_store"
    /\ \/ /\ stored' = Append(stored, complete_response(events))
          /\ NoYield
          /\ pc' = "h_facts"
       \/ /\ stored' = stored
          /\ NoYield
          /\ pc' = "h_complete"
    /\ UNCHANGED <<parVars, init_fails, libVars>>
    /\ UNCHANGED <<settings, clients, updates, kind, message, context, loc,
                   response, calls, searches, costs, reads>>

\* app.py l.152, l.158-159: store_conversation returns, or raises
h_store ==
    /\ pc = "h_store"
    /\ \/ /\ stored' = Append(stored, complete_response(events))
          /\ NoYield
          /\ pc' = "h_facts"
       \/ /\ stored' = stored
          /\ Deliver([Ev("error") EXCEPT !.text = <<"handler">>])
          /\ pc' = "done"
    /\ UNCHANGED <<parVars, init_fails, libVars>>
    /\ UNCHANGED <<settings, clients, updates, kind, message, context, loc,
                   response, calls, searches, costs, reads>>

\* app.py l.153: extract_user_facts returns, or raises (l.158-159)
h_facts ==
    /\ pc = "h_facts"
    /\ \/ /\ NoYield
          /\ pc' = "h_complete"
       \/ /\ Deliver([Ev("error") EXCEPT !.text = <<"handler">>])
          /\ pc' = "done"
    /\ UNCHANGED <<parVars, init_fails, libVars>>
    /\ UNCHANGED <<settings, clients, updates, kind, message, context, loc,
                   response, calls, searches, costs, reads, stored>>

\* app.py l.156
h_complete ==
    /\ pc = "h_complete"
    /\ Deliver(Ev("complete"))
    /\ pc' = "done"
    /\ UNCHANGED <<parVars, init_fails, libVars>>
    /\ UNCHANGED <<settings, clients, updates, kind, message, context, loc,
                   response, calls, searches, costs, reads, stored>>

\* ------------------------------------------------------------ specification
Next ==
    \/ cs_provider \/ cs_available \/ cs_context \/ cs_budget \/ cs_model
    \/ cs_daily \/ cs_call \/ ad_model \/ ad_params \/ ad_sdk \/ ad_cost
    \/ cs_return
    \/ h_typing \/ h_context \/ st_provider \/ st_available \/ st_search
    \/ st_dosearch \/ st_context \/ st_budget \/ st_model \/ st_daily
    \/ st_dispatch \/ sf_content \/ sf_end \/ so_start \/ so_create
    \/ so_chunk \/ h_store \/ h_facts \/ h_complete

Spec == Init /\ [][Next]_vars

\* a request that overlaps settings updates
InitRace ==
    /\ Init
    /\ clients \in {Providers, {"openai"}}
    /\ settings.models.openai = "gpt-3.5-turbo"
    /\ ~settings.enabled.anthropic
    /\ settings.daily_budget = 500000000
    /\ message \in { <<"hello">>, <<"what ", "latest">> }
    /\ context = <<"c1", "c2">>

NextRace == Next \/ UpdateSettings

SpecRace == InitRace /\ [][NextRace]_vars

\* ------------------------------------------------- two requests in a row
\* POST /chat twice with the same message, context and settings
InitTwice ==
    /\ Init
    /\ kind = "chat"

\* app.py l.97-103: the handler of the first request stores the turn and
\* redirects; l.80-94: the second request enters chat_single with the same
\* message and context. The cost tracker and the SDK keep what the first
\* request left.
chat_again ==
    /\ kind = "chat"
    /\ pc = "done"
    /\ stored = <<>>
    /\ stored' = Append(stored, response)
    /\ pc' = "cs_provider"
    /\ loc' = NoLoc
    /\ response' = NoResponse
    /\ reads' = {}
    /\ UNCHANGED <<parVars, init_fails, libVars>>
    /\ UNCHANGED <<settings, clients, updates, kind, message, context, events, produced,
                   calls, searches, costs>>

NextTwice ==
    \/ cs_provider \/ cs_available \/ cs_context \/ cs_budget \/ cs_model
    \/ cs_daily \/ cs_call \/ ad_model \/ ad_params \/ ad_sdk \/ ad_cost
    \/ cs_return \/ chat_again

SpecTwice == InitTwice /\ [][NextTwice]_vars

\* ----------------------------------------------------------- _chat_parallel
\* the provider lists _get_enabled_providers can return: no provider twice
ProviderLists ==
    { l \in UNION { [1..n -> Providers] : n \in 0..Cardinality(Providers) } :
        \A i, j \in 1..Len(l) : i # j => l[i] # l[j] }

Finished == {"ok", "fail", "raised"}

\* a multi-provider call made with the settings of the test fixture
InitPar ==
    /\ settings \in { s \in SettingsSpace(0) :
                        /\ s.selected_provider = "openai"
                        /\ s.context_count = 5
                        /\ s.daily_budget = 500000000
                        /\ \A q \in Providers : s.enabled[q] }
    /\ clients \in SUBSET Providers
    /\ updates = 0
    /\ kind = "all"
    /\ pc = "done"
    /\ message \in {<<"hello">>}
    /\ context = <<>>
    /\ loc = NoLoc
    /\ events = <<>>
    /\ produced = <<>>
    /\ response = NoResponse
    /\ calls = <<>>
    /\ searches = 0
    /\ costs = [q \in Providers |-> 0]
    /\ reads = {}
    /\ stored = <<>>
    /\ providers \in ProviderLists
    /\ submitted = 0
    /\ futures = [q \in Providers |-> "none"]
    /\ responses = <<>>
    /\ ppc = "enter"
    /\ called = <<>>
    /\ init_fails = Providers \ clients
    /\ LibIdle

\* l.229: ThreadPoolExecutor(max_workers=len(providers)) raises ValueError
\* for max_workers = 0
par_enter ==
    /\ ppc = "enter"
    /\ ppc' = IF Len(providers) = 0 THEN "raised" ELSE "submit"
    /\ UNCHANGED <<providers, submitted, futures, responses, called>>
    /\ UNCHANGED <<chatVars, init_fails, libVars>>

\* l.232-234: executor.submit(self._call_provider, provider, message)
par_submit ==
    /\ ppc = "submit"
    /\ submitted < Len(providers)
    /\ futures' = [futures EXCEPT ![providers[submitted + 1]] = "pending"]
    /\ submitted' = submitted + 1
    /\ ppc' = IF submitted + 1 = Len(providers) THEN "collect" ELSE "submit"
    /\ UNCHANGED <<providers, responses, called>>
    /\ UNCHANGED <<chatVars, init_fails, libVars>>

\* a worker thread starts _call_provider (l.274-295) and reaches the SDK
\* call, or finds no client for the provider
worker_start(q) ==
    /\ futures[q] = "pending"
    /\ IF q \notin clients
       THEN /\ futures' = [futures EXCEPT ![q] = "fail"]
            /\ calls' = calls
       ELSE /\ futures' = [futures EXCEPT ![q] = "running"]
            /\ calls' = Append(calls, [provider |-> q, model |-> settings.models[q],
                                       params |-> IF reads_response_settings(q)
                                                  THEN IF passes_timeout(q)
                                                       THEN "max_tokens,temperature,timeout"
                                                       ELSE "max_tokens,temperature"
                                                  ELSE "none",
                                       stream |-> FALSE, message |-> message])
    /\ called' = Append(called, q)
    /\ UNCHANGED <<providers, submitted, responses, ppc, init_fails, libVars>>
    /\ UNCHANGED <<settings, clients, updates, kind, pc, message, context, loc,
                   events, produced, response, searches, costs, reads, stored>>

\* the worker's call ends: the adapter returns a success or an error result
\* (l.313-342), or the callable raises (an adapter replaced by a test double)
worker_finish(q) ==
    /\ futures[q] = "running"
    /\ \/ /\ futures' = [futures EXCEPT ![q] = "ok"]
          /\ costs' = IF settings.track_costs
                      THEN record_cost(costs, q,
                                       adapter_cost(q, settings.models[q], message))
                      ELSE costs
       \/ /\ futures' = [futures EXCEPT ![q] = "fail"]
          /\ costs' = costs
       \/ /\ futures' = [futures EXCEPT ![q] = "raised"]
          /\ costs' = costs
    /\ UNCHANGED <<providers, submitted, responses, ppc, called, init_fails, libVars>>
    /\ UNCHANGED <<settings, clients, updates, kind, pc, message, context, loc,
                   events, produced, response, calls, searches, reads, stored>>

\* the entry of the responses dict for a finished future (l.239-247)
entry(state) ==
    IF state = "ok"
    THEN [response |-> <<"answer">>, success |-> TRUE, latency |-> 25]
    ELSE IF state = "fail"
    THEN [response |-> <<"Error: ", "provider failure">>, success |-> FALSE,
          latency |-> 25]
    ELSE [response |-> <<"Error: ", "exception">>, success |-> FALSE,
          latency |-> 0]

\* mutant: future.result() outside a try: the exception leaves _chat_parallel
par_collect_propagate ==
    /\ ppc = "collect"
    /\ \E q \in Providers :
         /\ futures[q] \in Finished
         /\ q \notin DOMAIN responses
         /\ IF futures[q] = "raised"
            THEN /\ responses' = responses
                 /\ ppc' = "raised"
            ELSE /\ responses' = [r \in DOMAIN responses \cup {q} |->
                                    IF r = q THEN entry(futures[q]) ELSE responses[r]]
                 /\ ppc' = IF \A r \in Providers :
                                 futures[r] # "none" => r \in DOMAIN responses \cup {q}
                           THEN "exit" ELSE "collect"
    /\ UNCHANGED <<providers, submitted, futures, called>>
    /\ UNCHANGED <<chatVars, init_fails, libVars>>

\* l.237-247: as_completed hands over a finished future; its result or its
\* exception becomes the provider's entry
par_collect ==
    /\ ppc = "collect"
    /\ \E q \in Providers :
         /\ futures[q] \in Finished
         /\ q \notin DOMAIN responses
         /\ responses' = [r \in DOMAIN responses \cup {q} |->
                            IF r = q THEN entry(futures[q]) ELSE responses[r]]
         /\ ppc' = IF \A r \in Providers :
                         futures[r] # "none" => r \in DOMAIN responses \cup {q}
                   THEN "exit" ELSE "collect"
    /\ UNCHANGED <<providers, submitted, futures, called>>
    /\ UNCHANGED <<chatVars, init_fails, libVars>>

\* l.229, l.249: leaving the with block waits for the workers (shutdown),
\* then the dict is returned
par_return ==
    /\ ppc = "exit"
    /\ \A q \in Providers : futures[q] \in Finished \cup {"none"}
    /\ ppc' = "returned"
    /\ UNCHANGED <<providers, submitted, futures, responses, called>>
    /\ UNCHANGED <<chatVars, init_fails, libVars>>

NextPar ==
    \/ par_enter \/ par_submit \/ par_collect \/ par_return
    \/ \E q \in Providers : worker_start(q)
    \/ \E q \in Providers : worker_finish(q)

SpecPar == InitPar /\ [][NextPar]_vars

\* --------------------------------------------------------- _chat_sequential
\* a sequential multi-provider call, with smart routing on or off
InitSeq ==
    /\ settings \in { [s EXCEPT !.smart_routing = b] :
                        s \in { t \in SettingsSpace(0) :
                                  /\ t.selected_provider = "openai"
                                  /\ t.context_count = 5
                                  /\ t.daily_budget = 500000000
                                  /\ \A q \in Providers : t.enabled[q] },
                        b \in SmartRouting }
    /\ clients \in SUBSET Providers
    /\ updates = 0
    /\ kind = "sequential"
    /\ pc = "done"
    /\ message \in {<<"hello">>}
    /\ context = <<>>
    /\ loc = NoLoc
    /\ events = <<>>
    /\ produced = <<>>
    /\ response = NoResponse
    /\ calls = <<>>
    /\ searches = 0
    /\ costs = [q \in Providers |-> 0]
    /\ reads = {}
    /\ stored = <<>>
    /\ providers \in ProviderLists
    /\ submitted = 0
    /\ futures = [q \in Providers |-> "none"]
    /\ responses = <<>>
    /\ ppc = "seq_loop"
    /\ called = <<>>
    /\ init_fails = Providers \ clients
    /\ LibIdle

\* l.255-257: the next provider of the list is handed to _call_provider;
\* l.272: the list is exhausted and the dict is returned
seq_next ==
    /\ ppc = "seq_loop"
    /\ IF submitted < Len(providers)
       THEN /\ submitted' = submitted + 1
            /\ called' = Append(called, providers[submitted + 1])
            /\ futures' = [futures EXCEPT ![providers[submitted + 1]] = "running"]
            /\ ppc' = "seq_call"
       ELSE /\ UNCHANGED <<submitted, called, futures>>
            /\ ppc' = "returned"
    /\ UNCHANGED <<providers, responses, init_fails, libVars>>
    /\ UNCHANGED chatVars

\* l.257, l.274-295: _call_provider finds no client, or the adapter calls the
\* SDK and returns a success or an error result, or the callable raises (an
\* adapter replaced by a test double)
seq_call ==
    /\ ppc = "seq_call"
    /\ LET q == providers[submitted]
       IN  IF q \notin clients
           THEN /\ futures' = [futures EXCEPT ![q] = "fail"]
                /\ calls' = calls
                /\ costs' = costs
           ELSE /\ calls' = Append(calls,
                        [provider |-> q, model |-> settings.models[q],
                         params |-> IF reads_response_settings(q)
                                    THEN IF passes_timeout(q)
                                         THEN "max_tokens,temperature,timeout"
                                         ELSE "max_tokens,temperature"
                                    ELSE "none",
                         stream |-> FALSE, message |-> message])
                /\ \/ /\ futures' = [futures EXCEPT ![q] = "ok"]
                      /\ costs' = IF settings.track_costs
                                  THEN record_cost(costs, q,
                                         adapter_cost(q, settings.models[q], message))
                                  ELSE costs
                   \/ /\ futures' = [futures EXCEPT ![q] = "fail"]
                      /\ costs' = costs
                   \/ /\ futures' = [futures EXCEPT ![q] = "raised"]
                      /\ costs' = costs
    /\ ppc' = "seq_result"
    /\ UNCHANGED <<providers, submitted, responses, called, init_fails, libVars>>
    /\ UNCHANGED <<settings, clients, updates, kind, pc, message, context, loc,
                   events, produced, response, searches, reads, stored>>

\* mutant: smart routing never stops the loop
seq_result_nobreak ==
    /\ ppc = "seq_result"
    /\ LET q == providers[submitted]
       IN  responses' = [r \in DOMAIN responses \cup {q} |->
                           IF r = q THEN entry(futures[q]) ELSE responses[r]]
    /\ ppc' = "seq_loop"
    /\ UNCHANGED <<providers, submitted, futures, called, init_fails, libVars>>
    /\ UNCHANGED chatVars

\* mutant: the loop stops at the first provider that fails
seq_result_failstop ==
    /\ ppc = "seq_result"
    /\ LET q == providers[submitted]
       IN  /\ responses' = [r \in DOMAIN responses \cup {q} |->
                              IF r = q THEN entry(futures[q]) ELSE responses[r]]
           /\ ppc' = IF (settings.smart_routing /\ entry(futures[q]).success)
                        \/ futures[q] = "raised"
                     THEN "returned" ELSE "seq_loop"
    /\ UNCHANGED <<providers, submitted, futures, called, init_fails, libVars>>
    /\ UNCHANGED chatVars

\* l.258-270: the result, or the error entry of a call that raised, is stored;
\* with smart routing a successful result ends the loop (break, l.272)
seq_result ==
    /\ ppc = "seq_result"
    /\ LET q == providers[submitted]
       IN  /\ responses' = [r \in DOMAIN responses \cup {q} |->
                              IF r = q THEN entry(futures[q]) ELSE responses[r]]
           /\ ppc' = IF futures[q] # "raised" /\ settings.smart_routing
                        /\ entry(futures[q]).success
                     THEN "returned" ELSE "seq_loop"
    /\ UNCHANGED <<providers, submitted, futures, called, init_fails, libVars>>
    /\ UNCHANGED chatVars

NextSeq == seq_next \/ seq_call \/ seq_result

SpecSeq == InitSeq /\ [][NextSeq]_vars

\* ------------------------------------------------- multi-provider requests
\* order of the provider names as Python compares strings
NameOrder == <<"anthropic", "google", "openai">>

NameRank(q) == CHOOSE i \in 1..Len(NameOrder) : NameOrder[i] = q

\* (priority, provider) tuples compare by priority, then by provider name
TupleLess(a, b) ==
    \/ a[1] < b[1]
    \/ a[1] = b[1] /\ NameRank(a[2]) < NameRank(b[2])

\* list.sort() of a list of distinct tuples
SortTuples(l) ==
    LET elems == { l[i] : i \in 1..Len(l) }
    IN  [ i \in 1..Len(l) |->
            CHOOSE x \in elems :
              Cardinality({ y \in elems : TupleLess(y, x) }) = i - 1 ]

\* mutant: the tuples are not sorted
get_enabled_providers_unsorted(s) ==
    LET on == SelectSeq(ProviderOrder, LAMBDA q : s.enabled[q])
    IN  [ i \in 1..Len(on) |-> on[i] ]

\* mutant: the enabled flag is not consulted
get_enabled_providers_everyone(s) ==
    LET sorted == SortTuples([ i \in 1..Len(ProviderOrder) |->
                                 <<s.priority[ProviderOrder[i]], ProviderOrder[i]>> ])
    IN  [ i \in 1..Len(sorted) |-> sorted[i][2] ]

\* _get_enabled_providers: the enabled providers as (priority, provider)
\* tuples, collected in the order of the literal list, sorted, names returned.
\* The settings manager supplies an entry with both keys for every provider.
get_enabled_providers(s) ==
    LET on == SelectSeq(ProviderOrder, LAMBDA q : s.enabled[q])
        sorted == SortTuples([ i \in 1..Len(on) |-> <<s.priority[on[i]], on[i]>> ])
    IN  [ i \in 1..Len(sorted) |-> sorted[i][2] ]

\* priorities a settings form can give the providers
Priorities == 1..2

PriorityMaps == [Providers -> Priorities]

AllEnabledMaps == [Providers -> BOOLEAN]

NoProvidersEnabled == [k \in {"error"} |-> "No providers enabled"]

\* chat_with_all(message) is about to run
InitAll ==
    /\ settings \in { [s EXCEPT !.enabled = e, !.priority = pr,
                                !.parallel_requests = par, !.smart_routing = sm] :
                        s \in { t \in SettingsSpace(0) :
                                  /\ t.selected_provider = "openai"
                                  /\ t.context_count = 5
                                  /\ t.daily_budget = 500000000
                                  /\ t.track_costs
                                  /\ t.models.openai = "gpt-3.5-turbo"
                                  /\ \A q \in Providers : t.enabled[q] },
                        e \in AllEnabledMaps, pr \in PriorityMaps,
                        par \in BOOLEAN, sm \in SmartRouting }
    /\ clients \in {Providers, {"openai", "google"}}
    /\ updates = 0
    /\ kind = "all"
    /\ pc = "done"
    /\ message \in {<<"hello">>}
    /\ context = <<>>
    /\ loc = NoLoc
    /\ events = <<>>
    /\ produced = <<>>
    /\ response = NoResponse
    /\ calls = <<>>
    /\ searches = 0
    /\ costs = [q \in Providers |-> 0]
    /\ reads = {}
    /\ stored = <<>>
    /\ providers = <<>>
    /\ submitted = 0
    /\ futures = [q \in Providers |-> "none"]
    /\ responses = <<>>
    /\ ppc = "start"
    /\ called = <<>>
    /\ init_fails = Providers \ clients
    /\ LibIdle

\* chat_with_all: the enabled providers are asked in parallel or one by one,
\* as response_settings['parallel_requests'] says; with no provider enabled
\* the error result is returned
all_enter ==
    /\ ppc = "start"
    /\ providers' = get_enabled_providers(settings)
    /\ IF Len(providers') = 0
       THEN /\ responses' = NoProvidersEnabled
            /\ ppc' = "returned"
       ELSE /\ responses' = responses
            /\ ppc' = IF settings.parallel_requests THEN "enter" ELSE "seq_loop"
    /\ UNCHANGED <<submitted, futures, called>>
    /\ UNCHANGED <<chatVars, init_fails, libVars>>

NextAll == all_enter \/ NextPar \/ NextSeq

SpecAll == InitAll /\ [][NextAll]_vars

\* ---------------------------------------------------------------- __init__
\* LLMOrchestrator(settings): every client constructor is still to run
InitCtor ==
    /\ settings \in SettingsSpace(0)
    /\ clients = {}
    /\ updates = 0
    /\ kind = "ctor"
    /\ pc = "init_openai"
    /\ message \in {<<"hello">>}
    /\ context = <<>>
    /\ loc = NoLoc
    /\ events = <<>>
    /\ produced = <<>>
    /\ response = NoResponse
    /\ calls = <<>>
    /\ searches = 0
    /\ costs = [q \in Providers |-> 0]
    /\ reads = {}
    /\ stored = <<>>
    /\ ParIdle
    /\ init_fails \in SUBSET Providers
    /\ LibIdle

\* mutant: a constructor that raises aborts the construction
init_client_abort(q, at, next) ==
    /\ pc = at
    /\ IF q \in init_fails
       THEN /\ clients' = clients
            /\ pc' = "init_raised"
       ELSE /\ clients' = clients \cup {q}
            /\ pc' = next
    /\ UNCHANGED <<parVars, init_fails, libVars>>
    /\ UNCHANGED <<settings, updates, kind, message, context, loc, events,
                   produced, response, calls, searches, costs, reads, stored>>

\* try: self.clients[q] = <constructor>; except Exception: print a warning
init_client(q, at, next) ==
    /\ pc = at
    /\ clients' = IF q \in init_fails THEN clients ELSE clients \cup {q}
    /\ pc' = next
    /\ UNCHANGED <<parVars, init_fails, libVars>>
    /\ UNCHANGED <<settings, updates, kind, message, context, loc, events,
                   produced, response, calls, searches, costs, reads, stored>>

\* l.16-19
init_openai == init_client("openai", "init_openai", "init_anthropic")

\* l.22-25
init_anthropic == init_client("anthropic", "init_anthropic", "init_google")

\* l.28-31
init_google == init_client("google", "init_google", "constructed")

NextCtor == init_openai \/ init_anthropic \/ init_google

SpecCtor == InitCtor /\ [][NextCtor]_vars

\* ------------------------------------------------------ cost tracker calls
\* the settings of the settings file shipped, for the runs that make no chat
\* request
DefaultSettings ==
    CHOOSE s \in SettingsSpace(0) :
        /\ s.selected_provider = "openai"
        /\ s.context_count = 5
        /\ s.track_costs
        /\ s.daily_budget = 500000000
        /\ s.models.openai = "gpt-3.5-turbo"
        /\ ~s.enabled.anthropic

\* no chat request and no multi-provider call is running
ChatIdle ==
    /\ settings = DefaultSettings
    /\ clients = Providers
    /\ updates = 0
    /\ pc = "done"
    /\ message = <<"hello">>
    /\ context = <<>>
    /\ loc = NoLoc
    /\ events = <<>>
    /\ produced = <<>>
    /\ response = NoResponse
    /\ calls = <<>>
    /\ searches = 0
    /\ costs = [q \in Providers |-> 0]
    /\ reads = {}
    /\ stored = <<>>
    /\ ParIdle
    /\ init_fails = {}

\* days of a month of the calendar of the runs
DaysPerMonth == 2

\* strftime('%Y-%m') of a day
Month(day) == (day - 1) \div DaysPerMonth

\* _load_costs with no cost file
EmptyTracker == [daily |-> <<>>, monthly |-> <<>>, total |-> 0]

\* d[k] = v
Put(d, k, v) == [x \in DOMAIN d \cup {k} |-> IF x = k THEN v ELSE d[x]]

\* the record_cost calls of the adapters: provider, model and the cost of a
\* call that reported the usual token counts
TrackerCalls ==
    { [provider |-> "openai", model |-> "gpt-4",
       cost |-> estimate_cost("openai", "gpt-4", Usage.input, Usage.output)],
      [provider |-> "openai", model |-> "gpt-3.5-turbo",
       cost |-> estimate_cost("openai", "gpt-3.5-turbo", Usage.input, Usage.output)],
      [provider |-> "anthropic", model |-> "claude-3-sonnet-20240229",
       cost |-> estimate_cost("anthropic", "claude-3-sonnet-20240229",
                              Usage.input, Usage.output)] }

\* the callers of record_cost
ThreadIds == 1..Workers

NoCall == [pc |-> "idle", provider |-> "none", model |-> "none", cost |-> 0,
           today |-> 0, month |-> 0, tmp |-> 0]

\* record_cost calls that have started
Started == Len(ledger) + Cardinality({ t \in DOMAIN threads : threads[t].pc # "idle" })

\* the calendar moves on to the next day
tick ==
    /\ clock < MaxDay
    /\ clock' = clock + 1
    /\ UNCHANGED <<tracker, cost_file, ledger, threads>>
    /\ UNCHANGED <<chatVars, parVars, init_fails, estVars, wsVars, mgrVars>>

\* l.64-67: record_cost(provider, model, actual_cost) is entered, today and
\* month are taken from the clock
rc_enter(t) ==
    /\ t \in DOMAIN threads
    /\ threads[t].pc = "idle"
    /\ Started < MaxRecords
    /\ \E c \in TrackerCalls :
         threads' = [threads EXCEPT ![t] =
                       [pc |-> "daily_keys", provider |-> c.provider,
                        model |-> c.model, cost |-> c.cost, today |-> clock,
                        month |-> Month(clock), tmp |-> 0]]
    /\ UNCHANGED <<tracker, cost_file, clock, ledger>>
    /\ UNCHANGED <<chatVars, parVars, init_fails, estVars, wsVars, mgrVars>>

\* dict d with key k set to v when d has no key k
SetDefault(d, k, v) == IF k \in DOMAIN d THEN d ELSE Put(d, k, v)

\* l.70-73: the dict of the day and the provider's entry in it are created
\* when missing
rc_daily_keys(t) ==
    /\ t \in DOMAIN threads
    /\ threads[t].pc = "daily_keys"
    /\ LET th == threads[t]
           day == SetDefault(SetDefault(tracker.daily, th.today, <<>>)[th.today],
                             th.provider, 0)
       IN  tracker' = [tracker EXCEPT !.daily = Put(@, th.today, day)]
    /\ threads' = [threads EXCEPT ![t].pc = "daily_load"]
    /\ UNCHANGED <<cost_file, clock, ledger>>
    /\ UNCHANGED <<chatVars, parVars, init_fails, estVars, wsVars, mgrVars>>

\* l.74: the left operand of += is read
rc_daily_load(t) ==
    /\ t \in DOMAIN threads
    /\ threads[t].pc = "daily_load"
    /\ threads' = [threads EXCEPT
                     ![t].tmp = tracker.daily[threads[t].today][threads[t].provider],
                     ![t].pc = "daily_store"]
    /\ UNCHANGED <<tracker, cost_file, clock, ledger>>
    /\ UNCHANGED <<chatVars, parVars, init_fails, estVars, wsVars, mgrVars>>

\* l.74: the sum is stored
rc_daily_store(t) ==
    /\ t \in DOMAIN threads
    /\ threads[t].pc = "daily_store"
    /\ LET th == threads[t]
       IN  tracker' = [tracker EXCEPT !.daily[th.today][th.provider] = th.tmp + th.cost]
    /\ threads' = [threads EXCEPT ![t].pc = "monthly_keys"]
    /\ UNCHANGED <<cost_file, clock, ledger>>
    /\ UNCHANGED <<chatVars, parVars, init_fails, estVars, wsVars, mgrVars>>

\* l.77-80
rc_monthly_keys(t) ==
    /\ t \in DOMAIN threads
    /\ threads[t].pc = "monthly_keys"
    /\ LET th == threads[t]
           mon == SetDefault(SetDefault(tracker.monthly, th.month, <<>>)[th.month],
                             th.provider, 0)
       IN  tracker' = [tracker EXCEPT !.monthly = Put(@, th.month, mon)]
    /\ threads' = [threads EXCEPT ![t].pc = "monthly_load"]
    /\ UNCHANGED <<cost_file, clock, ledger>>
    /\ UNCHANGED <<chatVars, parVars, init_fails, estVars, wsVars, mgrVars>>

\* l.81: the left operand of += is read
rc_monthly_load(t) ==
    /\ t \in DOMAIN threads
    /\ threads[t].pc = "monthly_load"
    /\ threads' = [threads EXCEPT
                     ![t].tmp = tracker.monthly[threads[t].month][threads[t].provider],
                     ![t].pc = "monthly_store"]
    /\ UNCHANGED <<tracker, cost_file, clock, ledger>>
    /\ UNCHANGED <<chatVars, parVars, init_fails, estVars, wsVars, mgrVars>>

\* mutant: the month's entry is replaced by the cost of the call
rc_monthly_store_replace(t) ==
    /\ t \in DOMAIN threads
    /\ threads[t].pc = "monthly_store"
    /\ LET th == threads[t]
       IN  tracker' = [tracker EXCEPT !.monthly[th.month][th.provider] = th.cost]
    /\ threads' = [threads EXCEPT ![t].pc = "total_load"]
    /\ UNCHANGED <<cost_file, clock, ledger>>
    /\ UNCHANGED <<chatVars, parVars, init_fails, estVars, wsVars, mgrVars>>

\* l.81: the sum is stored
rc_monthly_store(t) ==
    /\ t \in DOMAIN threads
    /\ threads[t].pc = "monthly_store"
    /\ LET th == threads[t]
       IN  tracker' = [tracker EXCEPT !.monthly[th.month][th.provider] = th.tmp + th.cost]
    /\ threads' = [threads EXCEPT ![t].pc = "total_load"]
    /\ UNCHANGED <<cost_file, clock, ledger>>
    /\ UNCHANGED <<chatVars, parVars, init_fails, estVars, wsVars, mgrVars>>

\* l.84: the left operand of += is read
rc_total_load(t) ==
    /\ t \in DOMAIN threads
    /\ threads[t].pc = "total_load"
    /\ threads' = [threads EXCEPT ![t].tmp = tracker.total, ![t].pc = "total_store"]
    /\ UNCHANGED <<tracker, cost_file, clock, ledger>>
    /\ UNCHANGED <<chatVars, parVars, init_fails, estVars, wsVars, mgrVars>>

\* l.84: the sum is stored
rc_total_store(t) ==
    /\ t \in DOMAIN threads
    /\ threads[t].pc = "total_store"
    /\ tracker' = [tracker EXCEPT !.total = threads[t].tmp + threads[t].cost]
    /\ threads' = [threads EXCEPT ![t].pc = "save"]
    /\ UNCHANGED <<cost_file, clock, ledger>>
    /\ UNCHANGED <<chatVars, parVars, init_fails, estVars, wsVars, mgrVars>>

\* l.86, l.38-44: _save_costs writes the file, or an IOError is swallowed;
\* record_cost returns
rc_save(t) ==
    /\ t \in DOMAIN threads
    /\ threads[t].pc = "save"
    /\ \/ cost_file' = tracker
       \/ cost_file' = cost_file
    /\ ledger' = Append(ledger, [provider |-> threads[t].provider,
                                 model |-> threads[t].model,
                                 cost |-> threads[t].cost,
                                 day |-> threads[t].today])
    /\ threads' = [threads EXCEPT ![t] = NoCall]
    /\ UNCHANGED <<tracker, clock>>
    /\ UNCHANGED <<chatVars, parVars, init_fails, estVars, wsVars, mgrVars>>

\* a tracker that started empty; record_cost is called by n threads
InitTrackerOf(n) ==
    /\ ChatIdle
    /\ EstIdle
    /\ WsIdle
    /\ MgrIdle
    /\ kind = "tracker"
    /\ tracker = EmptyTracker
    /\ cost_file = "absent"
    /\ clock = 1
    /\ ledger = <<>>
    /\ threads = [t \in 1..n |-> NoCall]

\* record_cost calls one after the other
InitTracker == InitTrackerOf(1)

\* the steps of the callers of record_cost
NextWorkers ==
    \/ \E t \in ThreadIds : rc_enter(t)
    \/ \E t \in ThreadIds : rc_daily_keys(t)
    \/ \E t \in ThreadIds : rc_daily_load(t)
    \/ \E t \in ThreadIds : rc_daily_store(t)
    \/ \E t \in ThreadIds : rc_monthly_keys(t)
    \/ \E t \in ThreadIds : rc_monthly_load(t)
    \/ \E t \in ThreadIds : rc_monthly_store(t)
    \/ \E t \in ThreadIds : rc_total_load(t)
    \/ \E t \in ThreadIds : rc_total_store(t)
    \/ \E t \in ThreadIds : rc_save(t)

NextTracker == tick \/ NextWorkers

SpecTracker == InitTracker /\ [][NextTracker]_vars

\* record_cost called by the workers of _chat_parallel, or by requests served
\* at the same time
InitWorkers == InitTrackerOf(Workers)

SpecWorkers == InitWorkers /\ [][NextWorkers]_vars

\* ------------------------------------------------------------ estimate_cost
\* provider names: the three of PRICING and one that is not in it
EstProviders == Providers \cup {"mistral"}

\* model names: the five of PRICING and two that are not in it
EstModels ==
    {"gpt-4", "gpt-3.5-turbo", "claude-3-sonnet-20240229",
     "claude-3-haiku-20240307", "gemini-pro", "gemini-1.5-flash", "gpt-4o"}

\* estimate_cost is about to be called for a provider, a model and two token
\* counts
InitEstimate ==
    /\ ChatIdle
    /\ TrackerIdle
    /\ WsIdle
    /\ MgrIdle
    /\ kind = "estimate"
    /\ est \in [ pc : {"call"}, provider : EstProviders, model : EstModels,
                 input_tokens : 0..MaxTokens, output_tokens : 0..MaxTokens,
                 cost : {-1}, more_input : {-1}, more_output : {-1} ]

\* estimate_cost(provider, model, input_tokens, output_tokens)
est_call ==
    /\ est.pc = "call"
    /\ est' = [est EXCEPT !.cost = estimate_cost(est.provider, est.model,
                                                 est.input_tokens, est.output_tokens),
                          !.pc = "more_input"]
    /\ UNCHANGED <<chatVars, parVars, init_fails, trackerVars, wsVars, mgrVars>>

\* the same call with one more input token
est_more_input ==
    /\ est.pc = "more_input"
    /\ est' = [est EXCEPT !.more_input = estimate_cost(est.provider, est.model,
                                             est.input_tokens + 1, est.output_tokens),
                          !.pc = "more_output"]
    /\ UNCHANGED <<chatVars, parVars, init_fails, trackerVars, wsVars, mgrVars>>

\* the same call with one more output token
est_more_output ==
    /\ est.pc = "more_output"
    /\ est' = [est EXCEPT !.more_output = estimate_cost(est.provider, est.model,
                                              est.input_tokens, est.output_tokens + 1),
                          !.pc = "done"]
    /\ UNCHANGED <<chatVars, parVars, init_fails, trackerVars, wsVars, mgrVars>>

NextEstimate == est_call \/ est_more_input \/ est_more_output

SpecEstimate == InitEstimate /\ [][NextEstimate]_vars

\* ------------------------------------------------- WebSearchManager.search
\* what a search provider's HTTP request gets: requests.get raises, or the
\* status is not 200, or the JSON body has so many result items (Brave:
\* web.results; DuckDuckGo: RelatedTopics with a Text) and, for DuckDuckGo,
\* an Abstract or none. "provider": the provider is a double whose search
\* raises.
HttpResponses ==
    { [fault |-> "request", status |-> 0, items |-> 0, abstract |-> FALSE],
      [fault |-> "provider", status |-> 0, items |-> 0, abstract |-> FALSE],
      [fault |-> "none", status |-> 500, items |-> 0, abstract |-> FALSE] }
    \cup [ fault : {"none"}, status : {200}, items : 0..MaxItems, abstract : BOOLEAN ]

\* len(l[:stop]) for a list of n items
SliceLen(n, stop) ==
    IF stop >= 0 THEN (IF n < stop THEN n ELSE stop)
    ELSE (IF n + stop > 0 THEN n + stop ELSE 0)

\* n results of one kind of a provider
Results(provider, what, n) == [ i \in 1..n |-> [from |-> provider, what |-> what, k |-> i] ]

\* BraveSearchProvider.search(query, count): one result for every item of
\* web.results; [] for another status and for an exception
BraveSearch(http, count) ==
    IF http.fault = "none" /\ http.status = 200
    THEN Results("BraveSearchProvider", "web", http.items)
    ELSE <<>>

\* DuckDuckGoProvider.search(query, count): the Abstract, if any, then
\* RelatedTopics[:count-1]; [] for another status and for an exception
DuckDuckGoSearch(http, count) ==
    IF http.fault = "none" /\ http.status = 200
    THEN (IF http.abstract THEN Results("DuckDuckGoProvider", "abstract", 1) ELSE <<>>)
         \o Results("DuckDuckGoProvider", "topic", SliceLen(http.items, count - 1))
    ELSE <<>>

\* provider.search(query, count)
provider_search(provider, http, count) ==
    IF provider = "BraveSearchProvider" THEN BraveSearch(http, count)
    ELSE DuckDuckGoSearch(http, count)

\* WebSearchManager(brave_api_key) is about to be built and search(query,
\* count) to be called
InitSearch ==
    /\ ChatIdle
    /\ TrackerIdle
    /\ EstIdle
    /\ MgrIdle
    /\ kind = "search"
    /\ ws_providers = <<>>
    /\ ws_count \in 0..MaxCount
    /\ ws_http \in [ {"BraveSearchProvider", "DuckDuckGoProvider"} -> HttpResponses ]
    /\ ws_i = 0
    /\ ws_queried = <<>>
    /\ ws_results = <<>>
    /\ ws_pc = "new"

\* l.238-246: the providers in priority order
ws_init ==
    /\ ws_pc = "new"
    /\ \E brave_api_key \in {"", "key"} :
         ws_providers' = (IF brave_api_key # "" THEN <<"BraveSearchProvider">> ELSE <<>>)
                         \o <<"DuckDuckGoProvider">>
    /\ ws_pc' = "loop"
    /\ UNCHANGED <<ws_count, ws_http, ws_i, ws_queried, ws_results>>
    /\ UNCHANGED <<chatVars, parVars, init_fails, trackerVars, estVars, mgrVars>>

\* mutant: the loop goes on after a provider had results
ws_next_nostop ==
    /\ ws_pc = "loop"
    /\ ws_i < Len(ws_providers)
    /\ LET provider == ws_providers[ws_i + 1]
           http == ws_http[provider]
           results == provider_search(provider, http, ws_count)
       IN  /\ ws_queried' = Append(ws_queried, provider)
           /\ ws_i' = ws_i + 1
           /\ IF http.fault # "provider" /\ results # <<>>
              THEN /\ ws_results' = results
                   /\ ws_pc' = IF ws_i + 1 = Len(ws_providers) THEN "returned" ELSE "loop"
              ELSE /\ ws_results' = ws_results
                   /\ ws_pc' = "loop"
    /\ UNCHANGED <<ws_providers, ws_count, ws_http>>
    /\ UNCHANGED <<chatVars, parVars, init_fails, trackerVars, estVars, mgrVars>>

\* l.258-288: the next provider is called; its results, if any, are logged
\* and returned; a provider that raised or had none is logged and skipped
ws_next ==
    /\ ws_pc = "loop"
    /\ ws_i < Len(ws_providers)
    /\ LET provider == ws_providers[ws_i + 1]
           http == ws_http[provider]
           results == provider_search(provider, http, ws_count)
       IN  /\ ws_queried' = Append(ws_queried, provider)
           /\ ws_i' = ws_i + 1
           /\ debug_search(http)
           /\ IF http.fault # "provider" /\ results # <<>>
              THEN /\ ws_results' = results
                   /\ ws_pc' = "returned"
              ELSE /\ ws_results' = ws_results
                   /\ ws_pc' = "loop"
    /\ UNCHANGED <<ws_providers, ws_count, ws_http>>
    /\ UNCHANGED <<chatVars, parVars, init_fails, trackerVars, estVars, mgrVars>>

\* l.290-293: no provider is left; the failure is logged and [] returned
ws_exhausted ==
    /\ ws_pc = "loop"
    /\ ws_i = Len(ws_providers)
    /\ ws_results' = <<>>
    /\ ws_pc' = "returned"
    /\ UNCHANGED <<ws_providers, ws_count, ws_http, ws_i, ws_queried>>
    /\ UNCHANGED <<chatVars, parVars, init_fails, trackerVars, estVars, mgrVars>>

NextSearch == ws_init \/ ws_next \/ ws_exhausted

SpecSearch == InitSearch /\ [][NextSearch]_vars

\* --------------------------------------------------------- SettingsManager
\* JSON text: a value is a string, number or boolean (an atom) or an object
Atom(a) == [dict |-> FALSE, atom |-> a, items |-> <<>>]

Object(items) == [dict |-> TRUE, atom |-> "", items |-> items]

\* Python objects: the value of a dict key is an atom or a reference to a
\* dict of the heap
V(a) == [ref |-> 0, atom |-> a]

R(id) == [ref |-> id, atom |-> ""]

\* some of _get_default_settings: two nested dicts, one of them with a dict
\* of its own
DefaultTree ==
    Object([models |->
              Object([openai |-> Atom("gpt-3.5-turbo"),
                      google |-> Atom("gemini-1.5-flash")]),
            memory_settings |->
              Object([context_count |-> Atom("5"),
                      memory_types |-> Object([context |-> Atom("True"),
                                               work_info |-> Atom("True")])])])

\* settings handed to save_settings: nothing, overrides of nested values at
\* two depths, a value in the place of a dict, a dict in the place of a
\* value, an empty dict and a key the defaults do not have
UserTrees ==
    { Object(<<>>),
      Object([models |-> Object([openai |-> Atom("gpt-4")])]),
      Object([memory_settings |->
                Object([memory_types |-> Object([context |-> Atom("False")])])]),
      Object([models |-> Atom("off")]),
      Object([models |-> Object(<<>>)]),
      Object([models |-> Object([openai |-> Object([tier |-> Atom("pro")])])]),
      Object([plugins |-> Object([search |-> Atom("on")])]),
      Object([models |-> Object([openai |-> Atom("gpt-4")]),
              memory_settings |-> Object([context_count |-> Atom("10")])]) }

\* user_settings.json: missing, not valid JSON, or the JSON text of a tree
NoFile == [exists |-> FALSE, valid |-> FALSE, tree |-> Object(<<>>)]

CorruptFile == [exists |-> TRUE, valid |-> FALSE, tree |-> Object(<<>>)]

FileOf(tree) == [exists |-> TRUE, valid |-> TRUE, tree |-> tree]

\* json.dump(obj): the text of the dict id of heap h
RECURSIVE json_dump(_, _)
json_dump(h, id) ==
    Object([ k \in DOMAIN h[id] |->
               IF h[id][k].ref # 0 THEN json_dump(h, h[id][k].ref)
               ELSE Atom(h[id][k].atom) ])

\* json.load(f): new dicts for the objects of the text
RECURSIVE json_load(_, _)
RECURSIVE json_load_items(_, _, _, _)
json_load_items(h, items, keys, acc) ==
    IF keys = {} THEN [heap |-> h, dict |-> acc]
    ELSE LET k == CHOOSE x \in keys : TRUE
         IN  IF items[k].dict
             THEN LET sub == json_load(h, items[k])
                  IN  json_load_items(sub.heap, items, keys \ {k}, Put(acc, k, R(sub.id)))
             ELSE json_load_items(h, items, keys \ {k}, Put(acc, k, V(items[k].atom)))

json_load(h, tree) ==
    LET r == json_load_items(h, tree.items, DOMAIN tree.items, <<>>)
    IN  [heap |-> Append(r.heap, r.dict), id |-> Len(r.heap) + 1]

\* d.copy(): a new dict with the keys and the values (atoms, references) of d
copy(h, d) == [heap |-> Append(h, h[d]), id |-> Len(h) + 1]

\* _merge_settings(defaults, user_settings): a copy of defaults; every key of
\* user_settings is set to its value, or, when both values are dicts, to
\* their merge
RECURSIVE merge_settings(_, _, _)
RECURSIVE merge_items(_, _, _, _)
merge_items(h, user, keys, result) ==
    IF keys = {} THEN [heap |-> h, dict |-> result]
    ELSE LET key == CHOOSE x \in keys : TRUE
             value == user[key]
         IN  IF key \in DOMAIN result /\ result[key].ref # 0 /\ value.ref # 0
             THEN LET sub == merge_settings(h, result[key].ref, value.ref)
                  IN  merge_items(sub.heap, user, keys \ {key},
                                  Put(result, key, R(sub.id)))
             ELSE merge_items(h, user, keys \ {key}, Put(result, key, value))

merge_settings(h, defaults, user) ==
    LET r == merge_items(h, h[user], DOMAIN h[user], h[defaults])
    IN  [heap |-> Append(r.heap, r.dict), id |-> Len(r.heap) + 1]

\* SettingsManager(): default_settings is built; a caller holds settings to
\* save; the settings file is missing, broken, or one written earlier
InitSettings ==
    /\ ChatIdle
    /\ TrackerIdle
    /\ EstIdle
    /\ WsIdle
    /\ kind = "settings"
    /\ heap = json_load(<<>>, DefaultTree).heap
    /\ default_settings = json_load(<<>>, DefaultTree).id
    /\ settings_file \in {NoFile, CorruptFile,
                          FileOf(Object([models |-> Object([openai |-> Atom("gpt-4")])]))}
    /\ user_settings \in UserTrees
    /\ current_settings = 0
    /\ mgr = [last |-> "init", from |-> "none", saved |-> FALSE, calls |-> 0]

\* save_settings(settings), l.82-91: the merge with the defaults is written
\* and True returned, or an IOError makes it return False
save_settings ==
    /\ mgr.calls < MaxCalls
    /\ LET arg == json_load(heap, user_settings)
           merged_settings == merge_settings(arg.heap, default_settings, arg.id)
       IN  \/ /\ settings_file' = FileOf(json_dump(merged_settings.heap,
                                                   merged_settings.id))
              /\ mgr' = [mgr EXCEPT !.last = "save", !.saved = TRUE,
                                    !.calls = @ + 1]
           \/ /\ settings_file' = settings_file
              /\ mgr' = [mgr EXCEPT !.last = "save_failed", !.calls = @ + 1]
    /\ UNCHANGED <<heap, default_settings, user_settings, current_settings>>
    /\ UNCHANGED <<chatVars, parVars, init_fails, trackerVars, estVars, wsVars>>

\* load_settings(), l.70-80: the file merged into the defaults, or a copy of
\* the defaults when the file is missing or cannot be parsed
load_settings ==
    /\ mgr.calls < MaxCalls
    /\ IF settings_file.exists /\ settings_file.valid
       THEN LET saved_settings == json_load(heap, settings_file.tree)
                merged == merge_settings(saved_settings.heap, default_settings,
                                         saved_settings.id)
            IN  /\ heap' = merged.heap
                /\ current_settings' = merged.id
                /\ mgr' = [mgr EXCEPT !.last = "load", !.from = "file",
                                      !.calls = @ + 1]
       ELSE LET c == copy(heap, default_settings)
            IN  /\ heap' = c.heap
                /\ current_settings' = c.id
                /\ mgr' = [mgr EXCEPT !.last = "load", !.from = "defaults",
                                      !.calls = @ + 1]
    /\ UNCHANGED <<default_settings, settings_file, user_settings>>
    /\ UNCHANGED <<chatVars, parVars, init_fails, trackerVars, estVars, wsVars>>

\* a caller sets a nested value of the settings it got from load_settings:
\* settings[k1][k2] = value (mock_demo.py l.134-141)
set_nested ==
    /\ mgr.calls < MaxCalls
    /\ current_settings # 0
    /\ \E k1 \in DOMAIN heap[current_settings] :
         /\ heap[current_settings][k1].ref # 0
         /\ \E k2 \in DOMAIN heap[heap[current_settings][k1].ref] :
              heap' = [heap EXCEPT ![heap[current_settings][k1].ref][k2] = V("changed")]
    /\ mgr' = [mgr EXCEPT !.last = "set", !.calls = @ + 1]
    /\ UNCHANGED <<default_settings, settings_file, user_settings, current_settings>>
    /\ UNCHANGED <<chatVars, parVars, init_fails, trackerVars, estVars, wsVars>>

NextSettings == save_settings \/ load_settings \/ set_nested

SpecSettings == InitSettings /\ [][NextSettings]_vars

\* ================================================================= claims
Types(evs) == [i \in 1..Len(evs) |-> evs[i].type]

\* an event of the handler itself, after the orchestrator's stream
HandlerTail(e) == e.type = "complete" \/ (e.type = "error" /\ e.text = <<"handler">>)

IsOrchEvent(e) == ~HandlerTail(e)

\* the delivered events up to the orchestrator's last event
StreamEvents == SelectSeq(events, IsOrchEvent)

NotTyping(e) == e.type # "typing"

\* the events chat_single_stream yielded
OrchEvents == SelectSeq(StreamEvents, NotTyping)

Count(t, ty) == Cardinality({i \in 1..Len(t) : t[i] = ty})

DropIf(t, ty) == IF t # <<>> /\ Head(t) = ty THEN Tail(t) ELSE t

\* t without its optional prefix Typing? Searching? SearchComplete?
Body(t) == DropIf(DropIf(DropIf(t, "typing"), "searching"), "search_complete")

\* Start Content* (End|Error)
ProviderPhase(b) ==
    /\ Len(b) >= 2
    /\ b[1] = "start"
    /\ b[Len(b)] \in {"end", "error"}
    /\ \A i \in 2..(Len(b) - 1) : b[i] = "content"

\* chat_single_stream has returned and the handler has not yet persisted
StreamReturned == kind = "stream" /\ pc = "h_store"

\* C1 as stated: at the end of the orchestrator's stream the event types match
\* Typing? Searching? SearchComplete? Start Content* (End|Error).
C1_Regex == StreamReturned => ProviderPhase(Body(Types(StreamEvents)))

\* C1 (amended): at the end of the orchestrator's stream the event types match
\* Typing? Searching? SearchComplete? (Start Content* (End|Error) | Error);
\* and in every state there is at most one terminal event from the
\* orchestrator and no Content before Start.
C1_EventOrder ==
    LET t == Types(StreamEvents)
    IN  /\ StreamReturned =>
              \/ ProviderPhase(Body(t))
              \/ Body(t) = <<"error">>
        /\ kind = "stream" =>
              /\ Count(t, "end") + Count(t, "error") <= 1
              /\ \A i \in 1..Len(t) :
                    t[i] = "content" => \E j \in 1..(i - 1) : t[j] = "start"

C1_Witness ==
    /\ StreamReturned
    /\ Types(events) = <<"typing", "searching", "search_complete", "start",
                         "content", "content", "end">>

\* the events from the first Start on
RECURSIVE FromStart(_)
FromStart(t) ==
    IF t = <<>> THEN <<>>
    ELSE IF Head(t) = "start" THEN t
    ELSE FromStart(Tail(t))

\* the provider stream of _stream_openai has raised
StreamRaised ==
    /\ kind = "stream"
    /\ loc.selected_provider = "openai"
    /\ loc.sdk = "raised"

\* C3: when the provider stream raises after k Content events, the events of
\* the provider phase are exactly Start, k Content and one Error, and the
\* orchestrator yields nothing after the Error.
C3_RaiseAfterK ==
    StreamRaised =>
        FromStart(Types(OrchEvents)) =
            <<"start">> \o [i \in 1..loc.chunks |-> "content"] \o <<"error">>

C3_Witness ==
    /\ StreamRaised
    /\ loc.chunks = 2
    /\ pc = "done"
    /\ Types(OrchEvents) = <<"start", "content", "content", "error">>

\* the blocking call of the non-streaming fallback has failed
FallbackFailed ==
    /\ StreamReturned
    /\ ~streams(loc.selected_provider)
    /\ loc.sdk = "raised"

\* C4: when the blocking call of a non-streaming provider fails, the stream
\* of chat_single_stream ends with exactly one Error event and has no End.
C4_FallbackError ==
    FallbackFailed =>
        LET t == Types(OrchEvents)
        IN  /\ t # <<>>
            /\ t[Len(t)] = "error"
            /\ Count(t, "error") = 1
            /\ Count(t, "end") = 0

\* the gate has been evaluated, with cost tracking on, and the estimate is
\* more than 20% of the daily budget
OverBudget ==
    /\ loc.track_costs
    /\ loc.estimated_cost >= 0
    /\ loc.daily_budget >= 0
    /\ 5 * loc.estimated_cost > loc.daily_budget

\* C5: with cost tracking on and an estimate above 20% of the daily budget,
\* chat_single returns success=false with latency 0 and no provider SDK is
\* ever invoked.
C5_BudgetGate ==
    (kind = "chat" /\ OverBudget) =>
        /\ pc = "done"
        /\ response.success = FALSE
        /\ response.latency = 0
        /\ calls = <<>>

C5_Witness ==
    /\ kind = "chat"
    /\ OverBudget
    /\ pc = "done"
    /\ response.provider = "openai"
    /\ loc.model = "gpt-4"

\* C6: when the gate of chat_single_stream rejects the assembled message,
\* the orchestrator yields the search events (if any), then exactly one
\* Error, and nothing else; no provider SDK is invoked.
C6_StreamBudgetGate ==
    (kind = "stream" /\ OverBudget) =>
        /\ pc \in {"h_store", "h_facts", "h_complete", "done"}
        /\ Types(OrchEvents) \in {<<"error">>,
                                  <<"searching", "search_complete", "error">>}
        /\ calls = <<>>

C6_Witness ==
    /\ kind = "stream"
    /\ OverBudget
    /\ Types(events) = <<"typing", "searching", "search_complete", "error">>
    /\ loc.results = 1

\* the availability check has found no client for the selected provider
NoClient ==
    /\ loc.selected_provider # "none"
    /\ settings.selected_provider \notin clients
    /\ pc \notin {"cs_provider", "cs_available", "h_typing", "h_context",
                  "st_provider", "st_available"}

\* C7: when the selected provider has no client, chat_single_stream yields
\* exactly one Error and nothing else, and calls neither the search service
\* nor a provider.
C7_StreamUnavailable ==
    (kind = "stream" /\ NoClient) =>
        /\ Types(OrchEvents) = <<"error">>
        /\ searches = 0
        /\ calls = <<>>
        /\ pc \in {"h_store", "h_facts", "h_complete", "done"}

C7_Witness ==
    /\ kind = "stream"
    /\ NoClient
    /\ should_search(message)
    /\ clients # {}
    /\ Types(events) = <<"typing", "error">>

\* C8: when the selected provider has no client, chat_single returns
\* success=false with latency 0, tagged with the selected provider, and no
\* provider SDK is invoked, whatever other providers are available.
C8_ChatUnavailable ==
    (kind = "chat" /\ NoClient) =>
        /\ pc = "done"
        /\ response.success = FALSE
        /\ response.latency = 0
        /\ response.provider = settings.selected_provider
        /\ calls = <<>>

C8_Witness ==
    /\ kind = "chat"
    /\ NoClient
    /\ pc = "done"
    /\ clients = Providers \ {settings.selected_provider}

\* C9: no provider SDK is invoked for a provider whose provider_settings
\* entry has enabled = false.
C9_NeverCallsDisabled ==
    \A i \in 1..Len(calls) : settings.enabled[calls[i].provider]

\* the providers of the list
Requested == {providers[i] : i \in 1..Len(providers)}

\* C10: _chat_parallel returns only after every submitted task has finished;
\* the returned dict has exactly one entry per requested provider, a success
\* entry for a call that returned one and a success=false entry for a call
\* that raised; no exception of a worker leaves _chat_parallel.
C10_ParallelIsolation ==
    /\ ppc = "returned" =>
          /\ \A q \in Requested : futures[q] \in Finished
          /\ DOMAIN responses = Requested
          /\ \A q \in Requested :
                /\ futures[q] = "raised" => responses[q].success = FALSE
                /\ futures[q] = "fail" => responses[q].success = FALSE
                /\ futures[q] = "ok" => responses[q].success = TRUE
    /\ ppc = "raised" => providers = <<>>
    /\ \A q \in DOMAIN responses : futures[q] \in Finished

C10_Witness ==
    /\ ppc = "returned"
    /\ Len(providers) = 3
    /\ futures[providers[1]] = "raised"
    /\ futures[providers[2]] = "ok"
    /\ futures[providers[3]] = "ok"
    /\ responses[providers[2]].success

\* every settings value the request has used so far is the value of s
FromVersion(s) ==
    /\ loc.selected_provider = s.selected_provider
    /\ loc.context_count # -1 => loc.context_count = s.context_count
    /\ loc.track_costs => s.track_costs
    /\ loc.adapter # "none" => loc.track_costs = s.track_costs
    /\ loc.model # "none" => loc.model = s.models[loc.selected_provider]
    /\ loc.daily_budget # -1 => loc.daily_budget = s.daily_budget
    /\ loc.adapter_model # "none" =>
          loc.adapter_model = s.models[loc.selected_provider]
    /\ response.success => (response.estimated_cost # -1) = s.track_costs

\* C2: the settings values one request uses all come from one settings
\* object, also when update_settings runs during the request.
C2_OneSettingsVersion ==
    (reads # {} /\ kind \in {"chat", "stream"}) => \E s \in reads : FromVersion(s)

\* the providers handed to _call_provider so far
Called == {called[i] : i \in 1..Len(called)}

\* the entry of every provider called so far tells the outcome of its call
EntriesMatch ==
    /\ DOMAIN responses = Called
    /\ \A q \in Called : responses[q].success = (futures[q] = "ok")

\* C11: with smart routing, _chat_sequential calls the providers in list
\* order, calls none after the first success, and returns exactly the
\* entries of the providers it called, error entries included.
C11_SmartRoutingStops ==
    (kind = "sequential" /\ settings.smart_routing) =>
        /\ called = SubSeq(providers, 1, Len(called))
        /\ \A i \in 1..(Len(called) - 1) : futures[called[i]] \in {"fail", "raised"}
        /\ ppc = "returned" =>
              /\ EntriesMatch
              /\ called = providers \/ futures[called[Len(called)]] = "ok"

C11_Witness ==
    /\ kind = "sequential"
    /\ settings.smart_routing
    /\ ppc = "returned"
    /\ Len(providers) = 3
    /\ Len(called) = 2
    /\ futures[called[1]] = "raised"
    /\ futures[called[2]] = "ok"
    /\ ~responses[called[1]].success

\* C12: without smart routing, _chat_sequential calls every provider of the
\* list once, in list order, and returns an entry for each: an error entry
\* for a call that raised or failed, and the providers after it are still
\* called and reported.
C12_SequentialAll ==
    (kind = "sequential" /\ ~settings.smart_routing) =>
        /\ called = SubSeq(providers, 1, Len(called))
        /\ ppc = "returned" =>
              /\ called = providers
              /\ EntriesMatch

C12_Witness ==
    /\ kind = "sequential"
    /\ ~settings.smart_routing
    /\ ppc = "returned"
    /\ Len(providers) = 3
    /\ futures[providers[1]] = "raised"
    /\ futures[providers[2]] = "fail"
    /\ futures[providers[3]] = "ok"
    /\ responses[providers[3]].success

\* C13: whichever client constructors raise, the construction runs to its
\* end, and the available clients are exactly the providers whose
\* constructor did not raise.
C13_InitIsolation ==
    kind = "ctor" =>
        /\ pc \in {"init_openai", "init_anthropic", "init_google", "constructed"}
        /\ pc = "constructed" => clients = Providers \ init_fails
        /\ clients \cap init_fails = {}

C13_Witness ==
    /\ kind = "ctor"
    /\ pc = "constructed"
    /\ init_fails = {"anthropic"}
    /\ clients = {"openai", "google"}

\* the handler is past the call of store_conversation, which raised
PersistRaised ==
    /\ kind = "stream"
    /\ pc = "done"
    /\ produced # <<>>
    /\ stored = <<>>

\* C14: chat_single_stream never yields Complete; the handler delivers at
\* most one Complete, and only after store_conversation has returned; when
\* store_conversation raises, the delivered stream ends with an Error and
\* has no Complete.
C14_CompleteAfterStore ==
    kind = "stream" =>
        LET t == Types(events)
        IN  /\ Count(Types(produced), "complete") = 0
            /\ Count(t, "complete") <= 1
            /\ Count(t, "complete") = 1 => (stored # <<>> /\ t[Len(t)] = "complete")
            /\ PersistRaised => (t[Len(t)] = "error" /\ Count(t, "complete") = 0)

C14_Witness ==
    /\ PersistRaised
    /\ Types(events) = <<"typing", "start", "content", "end", "error">>

\* C15: an Error event delivered by /stream-chat is the last event delivered.
C15_ErrorIsFinal ==
    kind = "stream" =>
        \A i \in 1..Len(events) : events[i].type = "error" => i = Len(events)

\* what the handler adds after the events of the orchestrator
HandlerTails == { <<>>, <<"complete">>, <<"error">> }

\* C16: the handler delivers Typing, then the events chat_single_stream
\* yielded, each once and in the order yielded, then at most one event of
\* its own; the text it persists is the concatenation, in order, of the
\* texts of the Content events yielded.
C16_HandlerRelays ==
    (kind = "stream" /\ events # <<>>) =>
        /\ events[1] = Ev("typing")
        /\ Len(events) >= 1 + Len(produced)
        /\ SubSeq(events, 2, 1 + Len(produced)) = produced
        /\ Types(SubSeq(events, 2 + Len(produced), Len(events))) \in HandlerTails
        /\ stored # <<>> => stored[1].response = ContentText(produced)

C16_Witness ==
    /\ kind = "stream"
    /\ pc = "done"
    /\ Types(produced) = <<"searching", "search_complete", "start", "content",
                           "content", "end">>
    /\ Types(events) = <<"typing">> \o Types(produced) \o <<"complete">>
    /\ stored[1].response = <<"chunk", "chunk">>

\* C17: every End event carries the model name and a full text equal to the
\* concatenation of the texts of the Content events of its stream.
C17_EndCarriesText ==
    kind = "stream" =>
        \A i \in 1..Len(produced) :
            produced[i].type = "end" =>
                /\ produced[i].model # "none"
                /\ produced[i].full_response = ContentText(produced)

\* the availability check has passed and the search decision is taken
SearchDecided ==
    /\ kind = "stream"
    /\ loc.selected_provider \in clients
    /\ pc \notin {"st_available", "st_search"}

\* C18: chat_single_stream yields Searching exactly when the provider is
\* available and the raw message needs a search; Searching is the first
\* event, and the one SearchComplete follows it at once, carrying the number
\* of results, before any Start, Content, End or Error.
C18_SearchEvents ==
    kind = "stream" =>
        LET t == Types(produced)
        IN  /\ \A i \in 1..Len(t) : t[i] = "searching" => (i = 1 /\ needs_search(message))
            /\ \A i \in 1..Len(t) : t[i] = "search_complete" =>
                  (i = 2 /\ t[1] = "searching" /\ produced[i].results = loc.results)
            /\ (SearchDecided /\ needs_search(message)) => (t # <<>> /\ t[1] = "searching")
            /\ (Len(t) >= 2 /\ t[1] = "searching") => t[2] = "search_complete"
            /\ (t # <<>> /\ t[1] = "searching") => loc.selected_provider \in clients

C18_Witness ==
    /\ kind = "stream"
    /\ pc = "done"
    /\ message = <<"what ", "latest">>
    /\ Types(produced) = <<"searching", "search_complete", "start", "content", "end">>
    /\ loc.results = 0

\* search() has just returned and no provider had a result
AllSearchFailed ==
    /\ kind = "stream"
    /\ loc.outcomes # <<>>
    /\ \A i \in 1..Len(loc.outcomes) : loc.outcomes[i].raised \/ loc.outcomes[i].n = 0

\* C19: when every search provider raises or returns nothing, search returns
\* the empty list, the no-results SearchComplete is yielded and the stream
\* goes on: the message is assembled with no search text and the stream ends
\* with the event of the budget gate or of the provider.
C19_SearchDegrades ==
    /\ AllSearchFailed =>
          /\ loc.results = 0
          /\ loc.search_results_text = <<>>
          /\ pc = "st_context"
          /\ produced = <<Ev("searching"), [Ev("search_complete") EXCEPT !.results = 0]>>
    /\ (kind = "stream" /\ loc.results = 0) =>
          /\ loc.full_message # <<>> =>
                loc.full_message =
                    message \o (IF context = <<>> THEN <<>>
                                ELSE context_text(context, loc.context_count))
          /\ pc \in {"h_store", "h_facts", "h_complete", "done"} =>
                /\ Len(produced) > 2
                /\ produced[3].type \in {"start", "error"}
                /\ produced[3].type = "start" => Len(calls) = 1

C19_Witness ==
    /\ kind = "stream"
    /\ loc.results = 0
    /\ pc = "done"
    /\ Len(calls) = 1
    /\ calls[1].message = message
    /\ Types(events) = <<"typing", "searching", "search_complete", "start",
                         "content", "end", "complete">>

\* the 'Relevant context' block of the request
ContextBlock ==
    IF context = <<>> THEN <<>>
    ELSE <<"\n\nRelevant context:\n">> \o Join(Take(context, loc.context_count))

\* the search text of the request
SearchBlock == IF loc.results > 0 THEN search_text(loc.results) ELSE <<>>

\* C20: the message handed to the provider is the user message, then the
\* search text if the search had results, then the 'Relevant context' block
\* if the context is not empty; with neither it is the user message.
C20_MessageOrder ==
    kind \in {"chat", "stream"} =>
        \A i \in 1..Len(calls) :
            /\ calls[i].message = message \o SearchBlock \o ContextBlock
            /\ (loc.results <= 0 /\ context = <<>>) => calls[i].message = message

C20_Witness ==
    /\ kind = "stream"
    /\ Len(calls) = 1
    /\ loc.results = 1
    /\ Len(context) = 2
    /\ loc.context_count = 1
    /\ calls[1].message = message \o search_text(1)
                          \o <<"\n\nRelevant context:\n", "c1">>

IsContextItem(a) == \E i \in 1..Len(ContextItems) : ContextItems[i] = a

\* the context items a message contains, in order
ItemsIn(msg) == SelectSeq(msg, IsContextItem)

Min(a, b) == IF a < b THEN a ELSE b

\* C21: the message handed to the provider contains exactly the first
\* min(len(context), context_count) context items, in the order supplied.
C21_ContextBound ==
    kind \in {"chat", "stream"} =>
        \A i \in 1..Len(calls) :
            ItemsIn(calls[i].message) =
                IF context = <<>> THEN <<>>
                ELSE [k \in 1..Min(Len(context), loc.context_count) |-> context[k]]

C21_Witness ==
    /\ kind = "chat"
    /\ pc = "done"
    /\ context = <<"c1", "c2">>
    /\ loc.context_count = 1
    /\ Len(calls) = 1
    /\ ItemsIn(calls[1].message) = <<"c1">>

\* C22: chat_single always ends by returning a result; when the provider
\* call raised, the result has success=false, a text that begins with
\* 'Error: ' and the tag of the selected provider.
C22_NeverRaises ==
    kind = "chat" =>
        /\ pc \in {"cs_provider", "cs_available", "cs_context", "cs_budget",
                   "cs_model", "cs_daily", "cs_call", "ad_model", "ad_params",
                   "ad_sdk", "ad_cost", "cs_return", "done"}
        /\ pc = "done" => response.provider = loc.selected_provider
        /\ (pc = "done" /\ loc.sdk = "raised") =>
              /\ response.success = FALSE
              /\ Head(response.response) = "Error: "
              /\ Len(response.response) > 1

C22_Witness ==
    /\ kind = "chat"
    /\ pc = "done"
    /\ loc.sdk = "raised"
    /\ response.provider = "anthropic"
    /\ response.response = <<"Error: ", "provider failure">>

\* the provider returned a response to the request
ProviderAnswered ==
    \/ kind = "chat" /\ pc = "done" /\ loc.sdk = "ok"
    \/ /\ kind = "stream"
       /\ pc \in {"h_store", "h_facts", "h_complete", "done"}
       /\ loc.sdk = "ok"

\* C23: with cost tracking on, a provider call that succeeded, blocking or
\* streamed, has recorded a cost for its provider, and a call that failed
\* has recorded none.
C23_CostRecorded ==
    (kind \in {"chat", "stream"} /\ settings.track_costs) =>
        /\ (ProviderAnswered /\ loc.record # "raised") => costs[loc.selected_provider] > 0
        /\ loc.sdk = "raised" => costs = [q \in Providers |-> 0]

\* C24: when record_cost fails, the call that returned a response is still
\* reported with success=true and the provider's text.
C24_RecordFailureHarmless ==
    (kind \in {"chat", "stream"} /\ loc.record = "raised") =>
        /\ response.success
        /\ response.response = <<"answer">>

\* C25: an adapter's result has estimated_cost only with cost tracking on,
\* and tokens only for a successful call of a provider that reports usage:
\* never for Google, never for a failed call.
C25_OptionalFields ==
    kind \in {"chat", "stream"} =>
        /\ response.estimated_cost # -1 => (settings.track_costs /\ response.success)
        /\ response.tokens =>
              /\ response.success
              /\ loc.adapter \in {"openai", "anthropic"}

C25_Witness ==
    /\ kind = "chat"
    /\ pc = "done"
    /\ loc.adapter = "google"
    /\ response.success
    /\ ~response.tokens
    /\ response.estimated_cost > 0

\* C26: every provider call is made with the configured timeout.
C26_TimeoutEverywhere ==
    kind \in {"chat", "stream"} =>
        \A i \in 1..Len(calls) : calls[i].params = "max_tokens,temperature,timeout"

SkippedText == <<"Request skipped: estimated cost exceeds budget limits">>

\* the request was rejected for its cost
Rejected ==
    \/ kind = "chat" /\ response.response = SkippedText
    \/ kind = "stream" /\ \E i \in 1..Len(produced) : produced[i].text = SkippedText

\* the request is over, and its provider had a client
Finished30 ==
    /\ loc.selected_provider \in clients
    /\ \/ kind = "chat" /\ pc = "done"
       \/ kind = "stream" /\ pc \in {"h_store", "h_facts", "h_complete"}

\* C30: the gate rejects exactly when cost tracking is on and the estimate
\* is strictly more than one fifth of the daily budget; otherwise the
\* request reaches the provider.
C30_GateThreshold ==
    kind \in {"chat", "stream"} =>
        /\ Rejected =>
              /\ settings.track_costs
              /\ 5 * loc.estimated_cost > settings.daily_budget
              /\ calls = <<>>
        /\ (Finished30 /\ ~Rejected) =>
              /\ calls # <<>>
              /\ settings.track_costs =>
                    5 * loc.estimated_cost <= settings.daily_budget

C30_Witness ==
    /\ kind = "chat"
    /\ pc = "done"
    /\ settings.track_costs
    /\ 5 * loc.estimated_cost = settings.daily_budget
    /\ calls # <<>>
    /\ ~Rejected


\* the order in which providers of equal priority are returned
TieOrder == <<"anthropic", "google", "openai">>

TieRank(q) == CHOOSE i \in 1..Len(TieOrder) : TieOrder[i] = q

\* C27: the list _get_enabled_providers returns holds exactly the providers
\* whose settings entry is enabled, each once, in ascending order of their
\* priority value, and providers of equal priority in one fixed order
C27_EnabledByPriority ==
    ppc # "start" =>
      /\ { providers[i] : i \in 1..Len(providers) }
           = { q \in Providers : settings.enabled[q] }
      /\ \A i, j \in 1..Len(providers) : i # j => providers[i] # providers[j]
      /\ \A i, j \in 1..Len(providers) :
           i < j => settings.priority[providers[i]] <= settings.priority[providers[j]]
      /\ \A i, j \in 1..Len(providers) :
           (i < j /\ settings.priority[providers[i]] = settings.priority[providers[j]])
             => TieRank(providers[i]) < TieRank(providers[j])

\* a provider of lower priority value comes first although it is the last of
\* the literal list, and the two providers of equal priority follow in the
\* fixed order
C27_Witness ==
    /\ ppc = "returned"
    /\ providers = <<"google", "anthropic", "openai">>
    /\ settings.priority = [openai |-> 2, anthropic |-> 2, google |-> 1]

C29_GateIdempotent ==
    (kind = "chat" /\ stored # <<>> /\ pc = "done") =>
      ((response.response = SkippedText) <=> (stored[1].response = SkippedText))

\* the first request passed the gate at exactly one fifth of the budget and
\* its cost was recorded; the second request passed as well
C29_Witness ==
    /\ kind = "chat"
    /\ stored # <<>>
    /\ pc = "done"
    /\ settings.track_costs
    /\ 5 * loc.estimated_cost = settings.daily_budget
    /\ costs[loc.selected_provider] > 0
    /\ Len(calls) = 2
    /\ response.response # SkippedText

\* the stream chat_single_stream yielded ended with an End event
EndedWithEnd == produced # <<>> /\ produced[Len(produced)].type = "end"

\* C35: a turn the /stream-chat handler persists is marked as a success only
\* when the stream of the orchestrator ended with End
C35_StoredSuccessMeansEnd ==
    kind = "stream" =>
        \A i \in 1..Len(stored) : stored[i].success => EndedWithEnd

\* C37: update_settings leaves the client registry as the constructor built
\* it: a provider whose constructor raised has no client
C37_RegistryUnchanged ==
    kind \in {"chat", "stream"} => clients = Providers \ init_fails

\* sum of the costs of ledger entries
RECURSIVE SumCosts(_)
SumCosts(l) == IF l = <<>> THEN 0 ELSE Head(l).cost + SumCosts(Tail(l))

\* get_daily_spending(day).get(provider, 0)
DailyOf(day, provider) ==
    IF day \in DOMAIN tracker.daily /\ provider \in DOMAIN tracker.daily[day]
    THEN tracker.daily[day][provider] ELSE 0

\* get_monthly_spending(month).get(provider, 0)
MonthlyOf(month, provider) ==
    IF month \in DOMAIN tracker.monthly /\ provider \in DOMAIN tracker.monthly[month]
    THEN tracker.monthly[month][provider] ELSE 0

\* no record_cost call is running
Quiet == \A t \in DOMAIN threads : threads[t].pc = "idle"

C36_NoLostCost ==
    (kind = "tracker" /\ Quiet) =>
      /\ tracker.total = SumCosts(ledger)
      /\ \A p \in Providers : \A d \in 1..MaxDay :
           DailyOf(d, p)
             = SumCosts(SelectSeq(ledger, LAMBDA e : e.provider = p /\ e.day = d))
      /\ \A p \in Providers : \A d \in 1..MaxDay :
           MonthlyOf(Month(d), p)
             = SumCosts(SelectSeq(ledger,
                  LAMBDA e : e.provider = p /\ Month(e.day) = Month(d)))

\* C32: for every provider and model, in the pricing table or not, and all
\* token counts from 0 on, estimate_cost is not negative and does not become
\* smaller when the input token count or the output token count grows
C32_EstimateMonotone ==
    (kind = "estimate" /\ est.pc = "done") =>
      /\ est.cost >= 0
      /\ est.more_input >= est.cost
      /\ est.more_output >= est.cost

\* rounding hides one more input token of a priced model, and one more
\* output token takes the estimate to the next ten-thousandth of a dollar
C32_Witness ==
    /\ kind = "estimate"
    /\ est.pc = "done"
    /\ est.provider = "openai"
    /\ est.model = "gpt-3.5-turbo"
    /\ est.input_tokens > 0
    /\ est.more_input = est.cost
    /\ est.more_output > est.cost

\* the call of a provider gave the manager nothing: it raised or returned []
GaveNothing(provider) ==
    \/ ws_http[provider].fault = "provider"
    \/ provider_search(provider, ws_http[provider], ws_count) = <<>>

\* C34: search returns at most count results, and the empty list when every
\* provider fails
C34_AtMostCount ==
    (kind = "search" /\ ws_pc = "returned") =>
      /\ Len(ws_results) <= ws_count
      /\ (\A i \in 1..Len(ws_providers) : GaveNothing(ws_providers[i]))
           => ws_results = <<>>

\* C38: the providers are Brave, when a key is configured, then DuckDuckGo;
\* search calls them in that order, each at most once, returns the results
\* of the first one that has some and calls none after it; one that raises
\* or has none is skipped; with none left the empty list is returned
C38_FirstProviderWins ==
    (kind = "search" /\ ws_pc # "new") =>
      /\ ws_providers \in SearchProviderLists
      /\ ws_queried = SubSeq(ws_providers, 1, Len(ws_queried))
      /\ \A i \in 1..Len(ws_queried) :
           i < Len(ws_queried) => GaveNothing(ws_queried[i])
      /\ ws_pc = "returned" =>
           \/ /\ ws_queried # <<>>
              /\ ~GaveNothing(ws_queried[Len(ws_queried)])
              /\ ws_results = provider_search(ws_queried[Len(ws_queried)],
                                  ws_http[ws_queried[Len(ws_queried)]], ws_count)
           \/ /\ ws_queried = ws_providers
              /\ \A i \in 1..Len(ws_queried) : GaveNothing(ws_queried[i])
              /\ ws_results = <<>>

\* Brave had results: they are returned and DuckDuckGo, which had results
\* too, was not called
C38_Witness ==
    /\ kind = "search"
    /\ ws_pc = "returned"
    /\ ws_providers = <<"BraveSearchProvider", "DuckDuckGoProvider">>
    /\ ws_queried = <<"BraveSearchProvider">>
    /\ ~GaveNothing("DuckDuckGoProvider")
    /\ ws_results # <<>>
    /\ \A i \in 1..Len(ws_results) : ws_results[i].from = "BraveSearchProvider"

\* the paths of a JSON text, the empty path included
RECURSIVE PathsOf(_)
PathsOf(t) ==
    IF ~t.dict THEN {<<>>}
    ELSE {<<>>} \cup UNION { { <<k>> \o p : p \in PathsOf(t.items[k]) } :
                             k \in DOMAIN t.items }

\* what a path leads to: a node; or the path is absent, an object on the way
\* has no such key; or it is blocked, a value on the way is not an object
RECURSIVE At(_, _)
At(t, p) ==
    IF p = <<>> THEN [status |-> "found", node |-> t]
    ELSE IF ~t.dict THEN [status |-> "blocked", node |-> Atom("")]
    ELSE IF Head(p) \notin DOMAIN t.items THEN [status |-> "absent", node |-> Atom("")]
    ELSE At(t.items[Head(p)], Tail(p))

\* load_settings has returned and the file is the one a save_settings call
\* wrote
LoadedAfterSave ==
    /\ kind = "settings"
    /\ mgr.last = "load"
    /\ mgr.saved

\* C33: after save_settings(s) succeeded, load_settings returns the defaults
\* (what _get_default_settings returns) overridden by s at every depth: a
\* value of s is the value loaded, a default that s has no key for is kept,
\* and nothing else is loaded
C33_SaveLoadOverrides ==
    LoadedAfterSave =>
      LET loaded == json_dump(heap, current_settings)
      IN  /\ \A p \in PathsOf(user_settings) :
                ~At(user_settings, p).node.dict =>
                    At(loaded, p) = At(user_settings, p)
          /\ \A p \in PathsOf(DefaultTree) :
                At(user_settings, p).status = "absent" =>
                    At(loaded, p) = At(DefaultTree, p)
          /\ PathsOf(loaded) \subseteq PathsOf(user_settings) \cup PathsOf(DefaultTree)

\* C39: a change of a nested value of loaded settings leaves default_settings
\* alone: the defaults stay what they were, and load_settings without a
\* usable file returns them
C39_DefaultsUntouched ==
    kind = "settings" =>
      /\ json_dump(heap, default_settings) = DefaultTree
      /\ (mgr.last = "load" /\ mgr.from = "defaults")
           => json_dump(heap, current_settings) = DefaultTree

====
